---- MODULE Spec2Model ----
(***************************************************************************)
(* Pattern registry and resolution cache of nexen.                         *)
(*                                                                         *)
(* The repository holds two instances of the same mechanism: package       *)
(* models (regex -> ModelInfo) and package connectors (regex ->            *)
(* constructorFn).  Each is a pair of package-level maps guarded by one    *)
(* sync.RWMutex.  The two packages share no state, so a behaviour of this  *)
(* module is a behaviour of one of them; pkg says which.                   *)
(*                                                                         *)
(* Strings are sequences of one-character strings, so that the regular     *)
(* expression matcher can be computed rather than tabulated.               *)
(***************************************************************************)
EXTENDS Integers, Sequences, FiniteSets, TLC

\* ---------------------------------------------------------------- bounds
NumThreads == 2
MaxPayload == 2

Threads == 1..NumThreads
None == "none"

\* ------------------------------------------------- patterns, identifiers
\* "a.*"   shaped like "claude-3.*"  (prefix pattern)
\* "b$"    shaped like "gpt-4$"      (end-anchored pattern)
\* "[a"    shaped like "[invalid"    (does not compile)
PatPrefix == <<"a", ".", "*">>
PatAnchored == <<"b", "$">>
PatMalformed == <<"[", "a">>
Patterns == {PatPrefix, PatAnchored, PatMalformed}

\* model identifiers: "a" (only a.* matches), "b" (only b$ matches),
\* "ab" (both match)
Ids == {<<"a">>, <<"b">>, <<"a", "b">>}

\* the ID a ModelInfo is registered with (e.g. "gpt-4" for "gpt-4-.*")
RegisteredID == <<"a">>

\* the model IDs of Init(), as the character sequences they are
\* "gpt-4-turbo"
IDGPT4Turbo ==
    <<"g", "p", "t", "-", "4", "-", "t", "u", "r", "b", "o">>
\* "gpt-4"
IDGPT4 ==
    <<"g", "p", "t", "-", "4">>
\* "gpt-3.5-turbo"
IDGPT35Turbo ==
    <<"g", "p", "t", "-", "3", ".", "5", "-", "t", "u", "r", "b", "o">>
\* "claude-3-opus"
IDClaude3Opus ==
    <<"c", "l", "a", "u", "d", "e", "-", "3", "-", "o", "p", "u", "s">>
\* "claude-3-sonnet"
IDClaude3Sonnet ==
    <<"c", "l", "a", "u", "d", "e", "-", "3", "-", "s", "o", "n", "n", "e", "t">>
\* "gemini-pro"
IDGeminiPro ==
    <<"g", "e", "m", "i", "n", "i", "-", "p", "r", "o">>
\* "mistral-large"
IDMistralLarge ==
    <<"m", "i", "s", "t", "r", "a", "l", "-", "l", "a", "r", "g", "e">>

\* the patterns Init() registers: "gpt-4-turbo.*", "gpt-4$", "gpt-4-.*",
\* "gpt-3.5-turbo.*", "claude-3-opus.*", "claude-3-sonnet.*",
\* "gemini-pro.*", "mistral-large.*"
AnySuffix == <<".", "*">>
PatGPT4TurboAny == IDGPT4Turbo \o AnySuffix
PatGPT4End == IDGPT4 \o <<"$">>
PatGPT4DashAny == IDGPT4 \o <<"-">> \o AnySuffix
PatGPT35TurboAny == IDGPT35Turbo \o AnySuffix
PatClaude3OpusAny == IDClaude3Opus \o AnySuffix
PatClaude3SonnetAny == IDClaude3Sonnet \o AnySuffix
PatGeminiProAny == IDGeminiPro \o AnySuffix
PatMistralLargeAny == IDMistralLarge \o AnySuffix
InitPatterns ==
    {PatGPT4TurboAny, PatGPT4End, PatGPT4DashAny, PatGPT35TurboAny,
     PatClaude3OpusAny, PatClaude3SonnetAny, PatGeminiProAny,
     PatMistralLargeAny}

\* the identifiers resolved against the built-in registrations:
\* "gpt-4-turbo", "gpt-4-turbo-preview", "gpt-4", "claude-3-opus" and
\* "llama", which Init() registers no pattern for
BuiltinIds ==
    {IDGPT4Turbo,
     IDGPT4Turbo \o <<"-", "p", "r", "e", "v", "i", "e", "w">>,
     IDGPT4,
     IDClaude3Opus,
     <<"l", "l", "a", "m", "a">>}

\* --------------------------------------------------------------- regexp
\* regexp.Compile on the fragment of RE2 syntax the repository's patterns
\* use: literals, ".", postfix "*", "$", and "[" which opens a character
\* class and is an error when no "]" closes it; "*" needs an operand.
Compiles(p) ==
    /\ \A i \in 1..Len(p) :
          p[i] = "[" => \E k \in (i+1)..Len(p) : p[k] = "]"
    /\ \A i \in 1..Len(p) :
          p[i] = "*" => (i > 1 /\ p[i-1] \notin {"*", "$"})

CharMatches(c, x) == c = "." \/ c = x

RECURSIVE MatchHere(_, _, _, _)
\* does p[i..] match a prefix of s[j..] ?
MatchHere(p, i, s, j) ==
    IF i > Len(p) THEN TRUE
    ELSE IF i + 1 <= Len(p) /\ p[i+1] = "*"
         THEN \E k \in j..(Len(s) + 1) :
                 /\ \A m \in j..(k-1) : CharMatches(p[i], s[m])
                 /\ MatchHere(p, i + 2, s, k)
    ELSE IF p[i] = "$"
         THEN j = Len(s) + 1 /\ MatchHere(p, i + 1, s, j)
    ELSE /\ j <= Len(s)
         /\ CharMatches(p[i], s[j])
         /\ MatchHere(p, i + 1, s, j + 1)

\* regexp.MatchString(pattern, s): compiles pattern, then reports whether
\* s contains any match (the search is not anchored).
RegexpMatchString(p, s) ==
    IF ~Compiles(p)
    THEN [matched |-> FALSE, err |-> TRUE]
    ELSE [matched |-> \E j \in 1..(Len(s) + 1) : MatchHere(p, 1, s, j),
          err |-> FALSE]

\* the results of regexp.MatchString for the patterns and the identifiers
\* of the model, computed once
MatchResults ==
    [p \in Patterns \cup InitPatterns |->
        [s \in Ids \cup BuiltinIds |-> RegexpMatchString(p, s)]]

MatchString(p, s) == MatchResults[p][s]

Matches(p, s) == MatchString(p, s).matched


\* ----------------------------------------------------------------- maps
EmptyMap == [k \in {} |-> None]

Put(m, k, v) == [x \in (DOMAIN m) \cup {k} |-> IF x = k THEN v ELSE m[x]]

\* the orders in which a range loop can visit the keys of a Go map
Orders(S) ==
    {f \in [1..Cardinality(S) -> S] :
        \A i, j \in 1..Cardinality(S) : i # j => f[i] # f[j]}

\* ------------------------------------------------------------- payloads
\* ModelInfo: ID and the fields Resolve copies verbatim (MaxTokens stands
\* for them)
ModelInfo == [ID : {RegisteredID}, MaxTokens : 1..MaxPayload]

\* constructorFn values, told apart by identity
constructorFn == 1..MaxPayload

Payloads(k) == IF k = "models" THEN ModelInfo ELSE constructorFn

\* ------------------------------------------------------ package models
\* Register that stores the payload but keeps the cache
ModelsRegisterKeepsCache(reg, cch, regexPattern, info) ==
    IF ~Compiles(regexPattern)
    THEN [ok |-> FALSE, registry |-> reg, cache |-> cch]
    ELSE [ok |-> TRUE,
          registry |-> Put(reg, regexPattern, info),
          cache |-> cch]

\* Register that stores and invalidates before it validates the pattern
ModelsRegisterStoresFirst(reg, cch, regexPattern, info) ==
    [ok |-> Compiles(regexPattern),
     registry |-> Put(reg, regexPattern, info),
     cache |-> EmptyMap]

\* Register, between mu.Lock() and the deferred mu.Unlock()
ModelsRegister(reg, cch, regexPattern, info) ==
    IF ~Compiles(regexPattern)
    THEN [ok |-> FALSE, registry |-> reg, cache |-> cch]
    ELSE [ok |-> TRUE,
          registry |-> Put(reg, regexPattern, info),
          cache |-> EmptyMap]

\* Resolve, the cache lookup under mu.RLock()
ModelsResolveRLocked(cch, model) ==
    IF model \in DOMAIN cch
    THEN [found |-> TRUE, info |-> cch[model]]
    ELSE [found |-> FALSE, info |-> None]

RECURSIVE ModelsScanIgnoresMatch(_, _, _, _, _)
\* a scan that returns the first pattern visited whether it matched or not
ModelsScanIgnoresMatch(reg, cch, order, i, model) ==
    IF i > Len(order)
    THEN [ok |-> FALSE, err |-> "notfound", info |-> None, cache |-> cch]
    ELSE LET pattern == order[i]
             m == MatchString(pattern, model)
         IN  IF m.err
             THEN [ok |-> FALSE, err |-> "invalidregex", info |-> None,
                   cache |-> cch]
             ELSE LET resolvedInfo == [reg[pattern] EXCEPT !.ID = model]
                  IN  [ok |-> TRUE, err |-> None, info |-> resolvedInfo,
                       cache |-> Put(cch, model, resolvedInfo)]

RECURSIVE ModelsScan(_, _, _, _, _)
\* Resolve, the range loop over registry, visiting order[i], order[i+1], ...
ModelsScan(reg, cch, order, i, model) ==
    IF i > Len(order)
    THEN [ok |-> FALSE, err |-> "notfound", info |-> None, cache |-> cch]
    ELSE LET pattern == order[i]
             m == MatchString(pattern, model)
         IN  IF m.err
             THEN [ok |-> FALSE, err |-> "invalidregex", info |-> None,
                   cache |-> cch]
             ELSE IF m.matched
             THEN LET resolvedInfo == [reg[pattern] EXCEPT !.ID = model]
                  IN  [ok |-> TRUE, err |-> None, info |-> resolvedInfo,
                       cache |-> Put(cch, model, resolvedInfo)]
             ELSE ModelsScan(reg, cch, order, i + 1, model)

\* Resolve, between mu.Lock() and the deferred mu.Unlock(): the outcomes
\* the double-checked lookup and the scan can have, one per iteration order
ModelsResolveLocked(reg, cch, model) ==
    IF model \in DOMAIN cch
    THEN {[ok |-> TRUE, err |-> None, info |-> cch[model], cache |-> cch,
           scanned |-> FALSE]}
    ELSE {[ok |-> r.ok, err |-> r.err, info |-> r.info, cache |-> r.cache,
           scanned |-> TRUE] :
              r \in {ModelsScan(reg, cch, order, 1, model) :
                        order \in Orders(DOMAIN reg)}}

\* ListModels that appends every pattern but the last one visited
ListModelsDropsLast(reg) ==
    {SubSeq(order, 1, Len(order) - 1) : order \in Orders(DOMAIN reg)}

\* ListModels, under mu.RLock(): the slices it can return, one per
\* iteration order of the range loop
ListModels(reg) == Orders(DOMAIN reg)

\* ClearRegistry that replaces the registry and keeps the cache
ClearRegistryKeepsCache(reg, cch) == [registry |-> EmptyMap, cache |-> cch]

\* ClearRegistry, under mu.Lock()
ClearRegistry(reg, cch) == [registry |-> EmptyMap, cache |-> EmptyMap]

\* -------------------------------------------------- package connectors
\* Register that stores the constructor but keeps the cache
ConnectorsRegisterKeepsCache(reg, cch, modelRegex, constructor) ==
    [ok |-> TRUE,
     registry |-> Put(reg, modelRegex, constructor),
     cache |-> cch]

\* Register, between mu.Lock() and the deferred mu.Unlock()
ConnectorsRegister(reg, cch, modelRegex, constructor) ==
    [ok |-> TRUE,
     registry |-> Put(reg, modelRegex, constructor),
     cache |-> EmptyMap]

\* Resolve, the cache lookup under mu.RLock()
ConnectorsResolveRLocked(cch, model) ==
    IF model \in DOMAIN cch
    THEN [found |-> TRUE, info |-> cch[model]]
    ELSE [found |-> FALSE, info |-> None]

RECURSIVE ConnectorsScan(_, _, _, _, _)
\* Resolve, the range loop over registry
ConnectorsScan(reg, cch, order, i, model) ==
    IF i > Len(order)
    THEN [ok |-> FALSE, err |-> "notfound", info |-> None, cache |-> cch]
    ELSE LET regex == order[i]
             m == MatchString(regex, model)
         IN  IF m.err
             THEN [ok |-> FALSE, err |-> "invalidregex", info |-> None,
                   cache |-> cch]
             ELSE IF m.matched
             THEN [ok |-> TRUE, err |-> None, info |-> reg[regex],
                   cache |-> Put(cch, model, reg[regex])]
             ELSE ConnectorsScan(reg, cch, order, i + 1, model)

\* Resolve that returns what the scan found without caching it
ConnectorsResolveLockedNoStore(reg, cch, model) ==
    IF model \in DOMAIN cch
    THEN {[ok |-> TRUE, err |-> None, info |-> cch[model], cache |-> cch,
           scanned |-> FALSE]}
    ELSE {[ok |-> r.ok, err |-> r.err, info |-> r.info, cache |-> cch,
           scanned |-> TRUE] :
              r \in {ConnectorsScan(reg, cch, order, 1, model) :
                        order \in Orders(DOMAIN reg)}}

\* Resolve, between mu.Lock() and the deferred mu.Unlock()
ConnectorsResolveLocked(reg, cch, model) ==
    IF model \in DOMAIN cch
    THEN {[ok |-> TRUE, err |-> None, info |-> cch[model], cache |-> cch,
           scanned |-> FALSE]}
    ELSE {[ok |-> r.ok, err |-> r.err, info |-> r.info, cache |-> r.cache,
           scanned |-> TRUE] :
              r \in {ConnectorsScan(reg, cch, order, 1, model) :
                        order \in Orders(DOMAIN reg)}}

\* ListModelPatterns, the connectors' counterpart of ListModels
ListModelPatterns(reg) == Orders(DOMAIN reg)

\* the reset TestRegistry performs under mu.Lock()
ConnectorsClear(reg, cch) == [registry |-> EmptyMap, cache |-> EmptyMap]

\* ---------------------------------------------------------------- state
VARIABLES
    pkg,        \* "models" or "connectors": the package this behaviour is of
    registry,   \* registry: pattern -> payload
    cache,      \* cache / resolveCache: identifier -> resolved payload
    lock,       \* mu: what each goroutine holds of it, "", "R" or "W"
    pc,         \* where each goroutine is in the call it is making
    arg,        \* the arguments of that call
    ret,        \* what the step just taken returned to its caller, if it
                \* was the return of a call
    resolved,   \* history: identifier -> payload returned by a successful
                \* Resolve since the last Register or clear returned
    published   \* history: pattern -> payload of the last successful
                \* Register of it that returned, since the last clear

vars == <<pkg, registry, cache, lock, pc, arg, ret, resolved, published>>

\* The components below have state of their own and a specification of
\* their own; the registry leaves their state alone, and they leave the
\* registry's alone.
VARIABLES
    resp,       \* response normalizer: the GenerateContentResponse given
    result      \* response normalizer: the LLMResponse made from it

nvars == <<resp, result>>

VARIABLES
    optInput,   \* option pipeline: the connector and the opts a caller passes
    applied,    \* option pipeline: what ApplyOptions did with them
    built       \* option pipeline: what the connector's constructor returned

ovars == <<optInput, applied, built>>

VARIABLES
    heap,       \* payload sharing: backing arrays of the Profiles slices
    infoReg,    \* payload sharing: registry, ModelInfo with its slice header
    infoCache,  \* payload sharing: cache
    got,        \* payload sharing: the ModelInfo values a caller was handed
    registered  \* payload sharing, history: pattern -> the ModelInfo that
                \* was registered, with the profiles it listed then

ivars == <<heap, infoReg, infoCache, got, registered>>

VARIABLES
    arrays,     \* configuration: backing arrays of the status-code slices
    optionMaps, \* configuration: the CustomOptions maps that were made
    defaults,   \* configuration: the package variable DefaultRetryConfig
    clients     \* configuration: the LLMConfig of each client built

cvars == <<arrays, optionMaps, defaults, clients>>

VARIABLES
    retryInput, \* retry helpers: attempt, policy, clock and status code
    backoff,    \* retry helpers: what CalculateBackoff returned
    retry       \* retry helpers: what ShouldRetry returned

rvars == <<retryInput, backoff, retry>>

VARIABLES
    ctxErr,     \* calls: ctx.Err() of the caller's context
    batch,      \* calls: the connector and the requests given to BatchCall
    position,   \* calls: the index the loop of BatchCall is at
    responses,  \* calls: the responses slice of BatchCall
    batchErr,   \* calls: what BatchCall returned, once it returned
    provider,   \* calls, history: the requests the provider was given
    last        \* calls, history: the Call made last and what it returned

kvars == <<ctxErr, batch, position, responses, batchErr, provider, last>>

VARIABLES
    initStep,   \* built-in models: how many Register calls Init() has made
    initReg,    \* built-in models: registry
    initCache,  \* built-in models: cache
    initRet     \* built-in models: what the Resolve made last returned

bvars == <<initStep, initReg, initCache, initRet>>

VARIABLES
    lpkg,       \* lock protocol: "models" or "connectors"
    lregistry,  \* lock protocol: registry
    lcache,     \* lock protocol: cache / resolveCache
    mu,         \* lock protocol: what each goroutine holds of mu, "", "R"
                \* or "W"
    at,         \* lock protocol: where each goroutine is in its call
    callArg     \* lock protocol: the pattern or identifier of that call

lvars == <<lpkg, lregistry, lcache, mu, at, callArg>>

RegistryIdle ==
    /\ pkg = "models"
    /\ registry = [k \in {} |-> None]
    /\ cache = [k \in {} |-> None]
    /\ lock = [t \in Threads |-> ""]
    /\ pc = [t \in Threads |-> "idle"]
    /\ arg = None
    /\ ret = None
    /\ resolved = None
    /\ published = None

NormalizerIdle == resp = None /\ result = None

OptionsIdle == optInput = None /\ applied = None /\ built = None

SharingIdle ==
    /\ heap = None
    /\ infoReg = None
    /\ infoCache = None
    /\ got = None
    /\ registered = None

ConfigIdle ==
    /\ arrays = None
    /\ optionMaps = None
    /\ defaults = None
    /\ clients = None

RetryIdle == retryInput = None /\ backoff = None /\ retry = None

CallIdle ==
    /\ ctxErr = None
    /\ batch = None
    /\ position = None
    /\ responses = None
    /\ batchErr = None
    /\ provider = None
    /\ last = None

BuiltinIdle ==
    /\ initStep = None
    /\ initReg = None
    /\ initCache = None
    /\ initRet = None

LockIdle ==
    /\ lpkg = None
    /\ lregistry = None
    /\ lcache = None
    /\ mu = None
    /\ at = None
    /\ callArg = None

NoArg == [pattern |-> None, payload |-> None, id |-> None]

NoRet == [op |-> None, t |-> None, pattern |-> None, payload |-> None,
          id |-> None, ok |-> FALSE, err |-> None, val |-> None,
          scanned |-> FALSE, repeat |-> FALSE, prior |-> None,
          dropped |-> {}, overwrote |-> FALSE, count |-> 0]
\* ret.repeat, ret.prior and ret.dropped are history.  For Resolve, repeat
\* says that an earlier Resolve of the same identifier returned a payload
\* since the last invalidation, and prior is that payload; for Register,
\* dropped is the set of identifiers that were cached when it ran (also
\* for a clear), overwrote says that the pattern was registered already
\* and count is the number of patterns that were registered.

Init ==
    /\ pkg \in {"models", "connectors"}
    /\ registry = EmptyMap
    /\ cache = EmptyMap
    /\ lock = [t \in Threads |-> ""]
    /\ pc = [t \in Threads |-> "idle"]
    /\ arg = [t \in Threads |-> NoArg]
    /\ ret = NoRet
    /\ resolved = EmptyMap
    /\ published = EmptyMap
    /\ NormalizerIdle
    /\ OptionsIdle
    /\ SharingIdle
    /\ ConfigIdle
    /\ RetryIdle
    /\ CallIdle
    /\ BuiltinIdle
    /\ LockIdle

\* ------------------------------------------------------- sync.RWMutex
\* mu.RLock() proceeds when no goroutine holds the write lock
CanRLock(lk) == \A u \in Threads : lk[u] # "W"

\* a write lock that waits for writers only
CanLockIgnoresReaders(lk) == \A u \in Threads : lk[u] # "W"

\* mu.Lock() proceeds when no goroutine holds the lock in either mode
CanLock(lk) == \A u \in Threads : lk[u] = ""

\* -------------------------------------------------------------- Register
\* a goroutine calls Register(p, v) and passes mu.Lock()
RegisterLock(t, p, v) ==
    /\ UNCHANGED <<nvars, ovars, ivars, cvars, rvars, kvars, bvars, lvars>>
    /\ pc[t] = "idle"
    /\ CanLock(lock)
    /\ lock' = [lock EXCEPT ![t] = "W"]
    /\ pc' = [pc EXCEPT ![t] = "reg_locked"]
    /\ arg' = [arg EXCEPT ![t] = [NoArg EXCEPT !.pattern = p, !.payload = v]]
    /\ ret' = NoRet
    /\ UNCHANGED <<pkg, registry, cache, resolved, published>>

\* the body of Register, the deferred mu.Unlock() and the return
RegisterLocked(t) ==
    /\ UNCHANGED <<nvars, ovars, ivars, cvars, rvars, kvars, bvars, lvars>>
    /\ pc[t] = "reg_locked"
    /\ LET p == arg[t].pattern
           v == arg[t].payload
           r == IF pkg = "models"
                THEN ModelsRegister(registry, cache, p, v)
                ELSE ConnectorsRegister(registry, cache, p, v)
       IN  /\ registry' = r.registry
           /\ cache' = r.cache
           /\ ret' = [NoRet EXCEPT !.op = "Register", !.t = t,
                         !.pattern = p, !.payload = v, !.ok = r.ok,
                         !.err = IF r.ok THEN None ELSE "invalidregex",
                         !.dropped = DOMAIN cache,
                         !.overwrote = p \in DOMAIN registry,
                         !.count = Cardinality(DOMAIN registry)]
           /\ resolved' = IF r.ok THEN EmptyMap ELSE resolved
           /\ published' = IF r.ok THEN Put(published, p, v) ELSE published
    /\ lock' = [lock EXCEPT ![t] = ""]
    /\ pc' = [pc EXCEPT ![t] = "idle"]
    /\ arg' = [arg EXCEPT ![t] = NoArg]
    /\ UNCHANGED pkg

\* --------------------------------------------------------------- Resolve
\* a goroutine calls Resolve(id) and passes mu.RLock()
ResolveRLock(t, id) ==
    /\ UNCHANGED <<nvars, ovars, ivars, cvars, rvars, kvars, bvars, lvars>>
    /\ pc[t] = "idle"
    /\ CanRLock(lock)
    /\ lock' = [lock EXCEPT ![t] = "R"]
    /\ pc' = [pc EXCEPT ![t] = "res_rlocked"]
    /\ arg' = [arg EXCEPT ![t] = [NoArg EXCEPT !.id = id]]
    /\ ret' = NoRet
    /\ UNCHANGED <<pkg, registry, cache, resolved, published>>

\* the cache lookup and mu.RUnlock(); on a hit the call returns
ResolveRLocked(t) ==
    /\ UNCHANGED <<nvars, ovars, ivars, cvars, rvars, kvars, bvars, lvars>>
    /\ pc[t] = "res_rlocked"
    /\ LET id == arg[t].id
           r == IF pkg = "models"
                THEN ModelsResolveRLocked(cache, id)
                ELSE ConnectorsResolveRLocked(cache, id)
       IN  IF r.found
           THEN /\ pc' = [pc EXCEPT ![t] = "idle"]
                /\ arg' = [arg EXCEPT ![t] = NoArg]
                /\ ret' = [NoRet EXCEPT !.op = "Resolve", !.t = t,
                              !.id = id, !.ok = TRUE, !.val = r.info,
                              !.scanned = FALSE,
                              !.repeat = id \in DOMAIN resolved,
                              !.prior = IF id \in DOMAIN resolved
                                        THEN resolved[id] ELSE None]
                /\ resolved' = Put(resolved, id, r.info)
           ELSE /\ pc' = [pc EXCEPT ![t] = "res_wait"]
                /\ ret' = NoRet
                /\ UNCHANGED <<arg, resolved>>
    /\ lock' = [lock EXCEPT ![t] = ""]
    /\ UNCHANGED <<pkg, registry, cache, published>>

\* after a miss the goroutine passes mu.Lock()
ResolveLock(t) ==
    /\ UNCHANGED <<nvars, ovars, ivars, cvars, rvars, kvars, bvars, lvars>>
    /\ pc[t] = "res_wait"
    /\ CanLock(lock)
    /\ lock' = [lock EXCEPT ![t] = "W"]
    /\ pc' = [pc EXCEPT ![t] = "res_locked"]
    /\ ret' = NoRet
    /\ UNCHANGED <<pkg, registry, cache, arg, resolved, published>>

\* the second lookup, the scan, the deferred mu.Unlock() and the return
ResolveLocked(t) ==
    /\ UNCHANGED <<nvars, ovars, ivars, cvars, rvars, kvars, bvars, lvars>>
    /\ pc[t] = "res_locked"
    /\ LET id == arg[t].id
           outcomes == IF pkg = "models"
                       THEN ModelsResolveLocked(registry, cache, id)
                       ELSE ConnectorsResolveLocked(registry, cache, id)
       IN  \E o \in outcomes :
              /\ cache' = o.cache
              /\ ret' = [NoRet EXCEPT !.op = "Resolve", !.t = t, !.id = id,
                            !.ok = o.ok, !.err = o.err, !.val = o.info,
                            !.scanned = o.scanned,
                            !.repeat = id \in DOMAIN resolved,
                            !.prior = IF id \in DOMAIN resolved
                                      THEN resolved[id] ELSE None]
              /\ resolved' = IF o.ok THEN Put(resolved, id, o.info)
                             ELSE resolved
    /\ lock' = [lock EXCEPT ![t] = ""]
    /\ pc' = [pc EXCEPT ![t] = "idle"]
    /\ arg' = [arg EXCEPT ![t] = NoArg]
    /\ UNCHANGED <<pkg, registry, published>>

\* ------------------------------------------------------------------ List
\* a goroutine calls ListModels / ListModelPatterns and passes mu.RLock()
ListRLock(t) ==
    /\ UNCHANGED <<nvars, ovars, ivars, cvars, rvars, kvars, bvars, lvars>>
    /\ pc[t] = "idle"
    /\ CanRLock(lock)
    /\ lock' = [lock EXCEPT ![t] = "R"]
    /\ pc' = [pc EXCEPT ![t] = "list_rlocked"]
    /\ ret' = NoRet
    /\ UNCHANGED <<pkg, registry, cache, arg, resolved, published>>

\* the copy of the keys, the deferred mu.RUnlock() and the return
ListRLocked(t) ==
    /\ UNCHANGED <<nvars, ovars, ivars, cvars, rvars, kvars, bvars, lvars>>
    /\ pc[t] = "list_rlocked"
    /\ \E patterns \in (IF pkg = "models" THEN ListModels(registry)
                         ELSE ListModelPatterns(registry)) :
          ret' = [NoRet EXCEPT !.op = "List", !.t = t, !.ok = TRUE,
                     !.val = patterns]
    /\ lock' = [lock EXCEPT ![t] = ""]
    /\ pc' = [pc EXCEPT ![t] = "idle"]
    /\ UNCHANGED <<pkg, registry, cache, arg, resolved, published>>

\* ----------------------------------------------------------------- Clear
\* a goroutine calls ClearRegistry (or resets the connectors' maps) and
\* passes mu.Lock()
ClearLock(t) ==
    /\ UNCHANGED <<nvars, ovars, ivars, cvars, rvars, kvars, bvars, lvars>>
    /\ pc[t] = "idle"
    /\ CanLock(lock)
    /\ lock' = [lock EXCEPT ![t] = "W"]
    /\ pc' = [pc EXCEPT ![t] = "clear_locked"]
    /\ ret' = NoRet
    /\ UNCHANGED <<pkg, registry, cache, arg, resolved, published>>

\* both maps are replaced by empty ones, then mu.Unlock()
ClearLocked(t) ==
    /\ UNCHANGED <<nvars, ovars, ivars, cvars, rvars, kvars, bvars, lvars>>
    /\ pc[t] = "clear_locked"
    /\ LET r == IF pkg = "models" THEN ClearRegistry(registry, cache)
                ELSE ConnectorsClear(registry, cache)
       IN  /\ registry' = r.registry
           /\ cache' = r.cache
    /\ ret' = [NoRet EXCEPT !.op = "Clear", !.t = t, !.ok = TRUE,
                  !.dropped = DOMAIN cache,
                  !.count = Cardinality(DOMAIN registry)]
    /\ resolved' = EmptyMap
    /\ published' = EmptyMap
    /\ lock' = [lock EXCEPT ![t] = ""]
    /\ pc' = [pc EXCEPT ![t] = "idle"]
    /\ UNCHANGED <<pkg, arg>>

Next ==
    \E t \in Threads :
        \/ \E p \in Patterns : \E v \in Payloads(pkg) : RegisterLock(t, p, v)
        \/ RegisterLocked(t)
        \/ \E id \in Ids : ResolveRLock(t, id)
        \/ ResolveRLocked(t)
        \/ ResolveLock(t)
        \/ ResolveLocked(t)
        \/ ListRLock(t)
        \/ ListRLocked(t)
        \/ ClearLock(t)
        \/ ClearLocked(t)

Spec == Init /\ [][Next]_vars

TypeOK ==
    /\ pkg \in {"models", "connectors"}
    /\ DOMAIN registry \subseteq Patterns
    /\ DOMAIN cache \subseteq Ids
    /\ \A t \in Threads : lock[t] \in {"", "R", "W"}


\* =================================================================== claims
\* what Resolve(id) hands out for a pattern registered with payload v
Resolution(v, id) == IF pkg = "models" THEN [v EXCEPT !.ID = id] ELSE v

\* the registered patterns that match id
Matching(reg, id) == {p \in DOMAIN reg : Matches(p, id)}

\* ------------------------------------------------------------------- C1
\* C1: every cache entry id -> v is consistent with the current registry:
\* some registered pattern matches id and v is that pattern's current
\* payload (for ModelInfo, with ID replaced by id).
C1_CacheConsistent ==
    \A id \in DOMAIN cache :
        \E p \in Matching(registry, id) :
            cache[id] = Resolution(registry[p], id)

\* a cache entry survives next to a registration that happened while a
\* resolution of another identifier was between its miss and its scan
C1_Witness ==
    /\ DOMAIN cache # {}
    /\ Cardinality(DOMAIN registry) >= 2
    /\ \E t \in Threads : pc[t] = "res_wait"

\* ------------------------------------------------------------------- C2
\* C2: when a successful Register returns the cache is empty, whatever the
\* pattern; and a Resolve that returns without scanning returns a payload
\* that a Resolve produced after the last Register.
C2_CoarseInvalidation ==
    /\ (ret.op = "Register" /\ ret.ok) => cache = EmptyMap
    /\ (ret.op = "Resolve" /\ ret.ok /\ ~ret.scanned) =>
           (ret.repeat /\ ret.val = ret.prior)

\* a Register of a pattern that matches none of the cached identifiers
\* has just emptied a non-empty cache
C2_Witness ==
    /\ ret.op = "Register" /\ ret.ok
    /\ ret.dropped # {}
    /\ \A id \in ret.dropped : ~Matches(ret.pattern, id)
    /\ ret.pattern \notin {PatMalformed}

\* ------------------------------------------------------------------- C3
NonOverlapping(reg) ==
    \A p, q \in DOMAIN reg :
        p # q => ~\E id \in Ids : Matches(p, id) /\ Matches(q, id)

\* C3: when the registered patterns are pairwise non-overlapping and
\* exactly one of them, P1, matches the identifier, Resolve succeeds and
\* returns P1's payload, scanned or cached.
C3_NonOverlappingResolve ==
    (ret.op = "Resolve" /\ NonOverlapping(registry)) =>
        \A p \in Matching(registry, ret.id) :
            ret.ok /\ ret.val = Resolution(registry[p], ret.id)

\* ------------------------------------------------------------------- C4
\* C4: Resolve fails exactly when no registered pattern matches.
C4_NotFoundExactly ==
    ret.op = "Resolve" => (~ret.ok <=> Matching(registry, ret.id) = {})

\* ------------------------------------------------------------------- C5
\* C5: in package models, Register fails exactly for a pattern that does
\* not compile, and a failed Register leaves registry and cache as they
\* were.
C5_InvalidPatternNoChange ==
    /\ [](pkg = "models" /\ ret.op = "Register" =>
             (ret.ok <=> Compiles(ret.pattern)))
    /\ [][(pkg = "models" /\ ret'.op = "Register" /\ ~ret'.ok) =>
             (registry' = registry /\ cache' = cache)]_vars

\* a Register of the malformed pattern failed while entries were
\* registered and cached
C5_Witness ==
    /\ pkg = "models"
    /\ ret.op = "Register" /\ ~ret.ok
    /\ DOMAIN registry # {}
    /\ DOMAIN cache # {}

\* ------------------------------------------------------------------- C6
\* C6: every stored pattern compiles.
C6_StoredPatternsCompile == \A p \in DOMAIN registry : Compiles(p)

\* ------------------------------------------------------------------- C7
\* C7: a Resolve(x) that follows a successful Resolve(x) with no Register
\* (or clear) in between returns the same payload, without scanning and
\* without changing registry or cache.
C7_Idempotent ==
    /\ []((ret.op = "Resolve" /\ ret.repeat) =>
             (ret.ok /\ ret.val = ret.prior /\ ~ret.scanned))
    /\ [][(ret'.op = "Resolve" /\ ret'.repeat) =>
             (registry' = registry /\ cache' = cache)]_vars

\* the repeated Resolve happened for an identifier that two registered
\* patterns with different payloads match
C7_Witness ==
    /\ ret.op = "Resolve" /\ ret.repeat
    /\ \E p, q \in Matching(registry, ret.id) : registry[p] # registry[q]

\* ------------------------------------------------------------------- C8
\* C8: once Register(p, v) has returned, a Resolve of an identifier that
\* only p matches returns v.
C8_PostRegistrationVisible ==
    ret.op = "Resolve" =>
        \A p \in DOMAIN published :
            Matching(published, ret.id) = {p} =>
                (ret.ok /\ ret.val = Resolution(published[p], ret.id))

\* ------------------------------------------------------------------- C9
WriteSites == {"reg_locked", "res_locked", "clear_locked"}
ReadSites == {"res_rlocked", "list_rlocked"}

\* C9: the goroutines at the places that write the maps hold the write
\* lock, those at the places that only read hold the read lock, a write
\* lock excludes every other holder, and the maps change only in a step
\* of the goroutine that holds the write lock.
C9_ReadersWriter ==
    /\ [](/\ \A t \in Threads :
                /\ pc[t] \in WriteSites => lock[t] = "W"
                /\ pc[t] \in ReadSites => lock[t] = "R"
                /\ pc[t] \notin (WriteSites \cup ReadSites) => lock[t] = ""
          /\ \A t, u \in Threads :
                (t # u /\ lock[t] = "W") => lock[u] = "")
    /\ [][(registry' # registry \/ cache' # cache) =>
             \E t \in Threads : lock[t] = "W" /\ lock'[t] = ""]_vars

\* two cache-hit resolutions overlap
C9_Witness ==
    \E t, u \in Threads :
        /\ t # u
        /\ pc[t] = "res_rlocked" /\ pc[u] = "res_rlocked"
        /\ arg[t].id \in DOMAIN cache /\ arg[u].id \in DOMAIN cache

\* ------------------------------------------------------------------ C10
\* the payloads a Resolve(id) can return from the current registry,
\* starting from cache cch
Returnable(cch, id) ==
    {o.info : o \in {x \in (IF pkg = "models"
                            THEN ModelsResolveLocked(registry, cch, id)
                            ELSE ConnectorsResolveLocked(registry, cch, id)) :
                        x.ok}}

\* C10 as stated: for every identifier the registry content alone fixes
\* the payload Resolve returns, whatever the iteration order and the cache.
C10_Deterministic ==
    \A id \in Ids :
        Cardinality(Returnable(EmptyMap, id) \cup Returnable(cache, id)) <= 1

AgreeOn(id) ==
    \A p, q \in Matching(registry, id) : registry[p] = registry[q]

\* C10 amended: when all registered patterns that match id carry the same
\* payload, the registry content alone fixes the payload a successful
\* Resolve(id) returns, and it is that payload.
C10_DeterministicWhenAgreeing ==
    /\ \A id \in Ids :
          AgreeOn(id) =>
              Cardinality(Returnable(EmptyMap, id)
                          \cup Returnable(cache, id)) <= 1
    /\ (ret.op = "Resolve" /\ ret.ok /\ AgreeOn(ret.id)) =>
           \A p \in Matching(registry, ret.id) :
               ret.val = Resolution(registry[p], ret.id)

\* a Resolve returned for an identifier that two registered patterns
\* carrying the same payload match
C10_Witness ==
    /\ ret.op = "Resolve" /\ ret.ok
    /\ Cardinality(Matching(registry, ret.id)) = 2
    /\ AgreeOn(ret.id)

\* ------------------------------------------------------------------ C11
\* what a Resolve(id) that starts in the current state can return
ResolveOutcomes(id) ==
    IF pkg = "models" THEN ModelsResolveLocked(registry, cache, id)
    ELSE ConnectorsResolveLocked(registry, cache, id)

\* C11: a Register(p, v2) of a pattern that is registered already succeeds,
\* leaves the number of patterns as it was and makes v2 the payload of p
\* (the call that holds the write lock last wins); a Resolve that follows,
\* of an identifier that only p matches, returns v2.
C11_LastWriteWins ==
    (ret.op = "Register" /\ ret.overwrote) =>
        /\ ret.ok
        /\ Cardinality(DOMAIN registry) = ret.count
        /\ registry[ret.pattern] = ret.payload
        /\ \A id \in Ids :
              Matching(registry, id) = {ret.pattern} =>
                  \A o \in ResolveOutcomes(id) :
                      o.ok /\ o.info = Resolution(ret.payload, id)

Elements(list) == {list[i] : i \in 1..Len(list)}

\* C13: List returns the patterns registered when it ran, each once and
\* nothing but patterns, and changes neither registry nor cache.
C13_ListSnapshot ==
    /\ [](ret.op = "List" =>
             /\ Elements(ret.val) = DOMAIN published
             /\ Len(ret.val) = Cardinality(DOMAIN published)
             /\ Elements(ret.val) \subseteq Patterns)
    /\ [][ret'.op = "List" => (registry' = registry /\ cache' = cache)]_vars

\* List returned two patterns while a resolution was cached
C13_Witness ==
    /\ ret.op = "List"
    /\ Len(ret.val) = 2
    /\ DOMAIN cache # {}

\* ------------------------------------------------------------------ C28
\* C28: between two invalidations of the cache (a Register or a clear),
\* at most one Resolve of an identifier that some registered pattern
\* matches runs the scan of the registry: the call that scanned was the
\* first of the identifier to return a payload, and every Resolve that
\* follows finds the payload in the cache, without a scan, and returns the
\* payload the scanning call returned.
C28_AtMostOneScan ==
    (/\ ret.op = "Resolve"
     /\ ret.scanned
     /\ Matching(registry, ret.id) # {}) =>
        /\ ret.ok
        /\ ~ret.repeat
        /\ ConnectorsResolveRLocked(cache, ret.id).found
        /\ \A o \in ResolveOutcomes(ret.id) :
              ~o.scanned /\ o.ok /\ o.info = ret.val

\* ==================================================== response normalizer
\* CreateLLMResponse of package models, a function of its argument.

\* -------------------------------------------------------------- bounds
MaxCandidates == 2
MaxTokenCount == 1

\* ------------------------------------------------------------- values
\* *Content: nil, or a Content with its Message and the length of Parts
NilContent == [nil |-> TRUE, Role |-> "", Message |-> "", Parts |-> 0]

ContentValues ==
    {NilContent} \cup
    {[nil |-> FALSE, Role |-> "assistant", Message |-> mp[1], Parts |-> mp[2]] :
        mp \in {<<"", 0>>, <<"Hello", 0>>, <<"", 1>>}}

\* *GroundingMetadata: nil or a metadata value
GroundingValues == {"nil", "citations"}

\* Candidate
CandidateValues ==
    {[Content |-> c, FinishReason |-> f[1], FinishMessage |-> f[2],
      GroundingMetadata |-> g] :
        c \in ContentValues,
        f \in {<<"", "">>, <<"MAX_TOKENS", "token limit">>},
        g \in GroundingValues}

\* *PromptFeedback
NilFeedback == [nil |-> TRUE, BlockReason |-> "", BlockReasonMessage |-> ""]

FeedbackValues ==
    {NilFeedback} \cup
    {[nil |-> FALSE, BlockReason |-> b[1], BlockReasonMessage |-> b[2]] :
        b \in {<<"", "">>, <<"SAFETY", "unsafe prompt">>}}

\* UsageMetrics as a provider fills it in: the total is right, too small
\* or too large.  LatencyMs is in tenths of a millisecond and CostCents in
\* thousandths of a cent (150.5 ms and 0.002 cents in the tests).
UsageValues ==
    {[PromptTokens |-> pt, CompletionTokens |-> ct, TotalTokens |-> tt,
      LatencyMs |-> 1505, CostCents |-> 2] :
        pt \in 0..MaxTokenCount, ct \in 0..MaxTokenCount,
        tt \in 0..(2 * MaxTokenCount + 1)}

\* the slices of candidates of length 0..MaxCandidates
CandidateLists ==
    UNION {[1..n -> CandidateValues] : n \in 0..MaxCandidates}

\* GenerateContentResponse
GenerateContentResponse ==
    [Candidates : CandidateLists, PromptFeedback : FeedbackValues,
     Usage : UsageValues]

\* *string
NilString == [nil |-> TRUE, s |-> ""]
AddressOf(str) == [nil |-> FALSE, s |-> str]

\* ------------------------------------------------------- the function
\* a usage that keeps the total the provider reported
UsageTrustsTotal(r) == r.Usage

\* CreateLLMResponse, the usage it starts with
Usage(r) ==
    [PromptTokens |-> r.Usage.PromptTokens,
     CompletionTokens |-> r.Usage.CompletionTokens,
     TotalTokens |-> r.Usage.PromptTokens + r.Usage.CompletionTokens,
     LatencyMs |-> r.Usage.LatencyMs,
     CostCents |-> r.Usage.CostCents]

\* var result LLMResponse; result.Usage = usage
ZeroResponse(r) ==
    [Content |-> NilContent, GroundingMetadata |-> "nil",
     ErrorCode |-> NilString, ErrorMessage |-> NilString, Usage |-> Usage(r)]

\* the condition under which the candidate's content is used
HasContent(cand) ==
    ~cand.Content.nil /\ (cand.Content.Parts > 0 \/ cand.Content.Message # "")

\* a choice of the first candidate that has content, if there is one
CandidateFirstWithContent(cands) ==
    IF \E i \in 1..Len(cands) : HasContent(cands[i])
    THEN cands[CHOOSE i \in 1..Len(cands) :
                   /\ HasContent(cands[i])
                   /\ \A j \in 1..(i-1) : ~HasContent(cands[j])]
    ELSE cands[1]

\* cand := resp.Candidates[0]
Candidate(cands) == cands[1]

\* an error that takes the code from the finish message and the message
\* from the finish reason
CandidateErrorSwapped(res, cand) ==
    [res EXCEPT !.ErrorCode = AddressOf(cand.FinishMessage),
                !.ErrorMessage = AddressOf(cand.FinishReason)]

\* candidate present but no content: the error fields of the result
CandidateError(res, cand) ==
    [res EXCEPT !.ErrorCode = AddressOf(cand.FinishReason),
                !.ErrorMessage = AddressOf(cand.FinishMessage)]

\* no candidates, prompt feedback present
FeedbackError(res, pf) ==
    [res EXCEPT !.ErrorCode = AddressOf(pf.BlockReason),
                !.ErrorMessage = AddressOf(pf.BlockReasonMessage)]

\* fallback unknown error
UnknownError(res) ==
    [res EXCEPT !.ErrorCode = AddressOf("UNKNOWN_ERROR"),
                !.ErrorMessage = AddressOf("Unknown error occurred.")]

CreateLLMResponse(r) ==
    LET res == ZeroResponse(r)
    IN  IF Len(r.Candidates) > 0
        THEN LET cand == Candidate(r.Candidates)
             IN  IF HasContent(cand)
                 THEN [res EXCEPT !.Content = cand.Content,
                                  !.GroundingMetadata = cand.GroundingMetadata]
                 ELSE CandidateError(res, cand)
        ELSE IF ~r.PromptFeedback.nil
             THEN FeedbackError(res, r.PromptFeedback)
             ELSE UnknownError(res)

\* (r *LLMResponse) IsError
IsError(res) == ~res.ErrorCode.nil \/ ~res.ErrorMessage.nil

\* (r *LLMResponse) Error
Error(res) ==
    IF ~res.ErrorMessage.nil THEN res.ErrorMessage.s
    ELSE IF ~res.ErrorCode.nil THEN "Error: " \o res.ErrorCode.s
    ELSE "Unknown error"

\* ------------------------------------------------------ specification
InitNormalize ==
    /\ resp \in GenerateContentResponse
    /\ result = [made |-> FALSE, r |-> ZeroResponse(resp)]
    /\ RegistryIdle
    /\ OptionsIdle
    /\ SharingIdle
    /\ ConfigIdle
    /\ RetryIdle
    /\ CallIdle
    /\ BuiltinIdle
    /\ LockIdle

\* a connector hands the provider's response to CreateLLMResponse
Normalize ==
    /\ ~result.made
    /\ result' = [made |-> TRUE, r |-> CreateLLMResponse(resp)]
    /\ UNCHANGED <<resp, vars, ovars, ivars, cvars, rvars, kvars, bvars, lvars>>

NextNormalize == Normalize

SpecNormalize == InitNormalize /\ [][NextNormalize]_nvars

\* ------------------------------------------------------------------ C15
\* C15: whatever branch made the response and whatever total the provider
\* reported, the response's total is prompt tokens plus completion tokens
\* and the other usage fields are those of the provider's response.
C15_UsageTotal ==
    result.made =>
        /\ result.r.Usage.TotalTokens =
               resp.Usage.PromptTokens + resp.Usage.CompletionTokens
        /\ result.r.Usage.PromptTokens = resp.Usage.PromptTokens
        /\ result.r.Usage.CompletionTokens = resp.Usage.CompletionTokens
        /\ result.r.Usage.LatencyMs = resp.Usage.LatencyMs
        /\ result.r.Usage.CostCents = resp.Usage.CostCents

\* the fallback branch made a response from a provider total that was wrong
C15_Witness ==
    /\ result.made
    /\ resp.Usage.TotalTokens #
           resp.Usage.PromptTokens + resp.Usage.CompletionTokens
    /\ resp.Usage.PromptTokens + resp.Usage.CompletionTokens > 0
    /\ Len(resp.Candidates) = 0
    /\ resp.PromptFeedback.nil

\* ------------------------------------------------------------------ C16
\* the first candidate's content is present, with a message or a part
FirstUsable(r) ==
    /\ Len(r.Candidates) > 0
    /\ ~r.Candidates[1].Content.nil
    /\ (r.Candidates[1].Content.Message # ""
           \/ r.Candidates[1].Content.Parts >= 1)

\* r without the candidates after the first
FirstOnly(r) ==
    [r EXCEPT !.Candidates =
        IF Len(r.Candidates) > 0 THEN <<r.Candidates[1]>> ELSE <<>>]

\* C16: the response is a success exactly when the first candidate has
\* usable content; it then carries that candidate's content and grounding
\* metadata; the candidates after the first make no difference.
C16_FirstCandidateWins ==
    result.made =>
        /\ ~IsError(result.r) <=> FirstUsable(resp)
        /\ ~IsError(result.r) =>
              /\ result.r.ErrorCode.nil /\ result.r.ErrorMessage.nil
              /\ result.r.Content = resp.Candidates[1].Content
              /\ result.r.GroundingMetadata =
                     resp.Candidates[1].GroundingMetadata
        /\ result.r = CreateLLMResponse(FirstOnly(resp))

\* a failure was made although the second candidate had content
C16_Witness ==
    /\ result.made
    /\ Len(resp.Candidates) = 2
    /\ ~FirstUsable(resp)
    /\ HasContent(resp.Candidates[2])
    /\ IsError(result.r)

\* ------------------------------------------------------------------ C17
\* C17: a first candidate without usable content gives its finish reason
\* and finish message, also when prompt feedback is present; no candidate
\* and prompt feedback give the block reason and message; neither gives
\* the fixed unknown error; a failure carries no content.
C17_FailurePrecedence ==
    result.made =>
        /\ (Len(resp.Candidates) > 0 /\ ~FirstUsable(resp)) =>
              /\ result.r.ErrorCode = AddressOf(resp.Candidates[1].FinishReason)
              /\ result.r.ErrorMessage =
                     AddressOf(resp.Candidates[1].FinishMessage)
        /\ (Len(resp.Candidates) = 0 /\ ~resp.PromptFeedback.nil) =>
              /\ result.r.ErrorCode = AddressOf(resp.PromptFeedback.BlockReason)
              /\ result.r.ErrorMessage =
                     AddressOf(resp.PromptFeedback.BlockReasonMessage)
        /\ (Len(resp.Candidates) = 0 /\ resp.PromptFeedback.nil) =>
              /\ result.r.ErrorCode = AddressOf("UNKNOWN_ERROR")
              /\ result.r.ErrorMessage = AddressOf("Unknown error occurred.")
        /\ ~FirstUsable(resp) =>
              (result.r.Content.nil /\ result.r.GroundingMetadata = "nil")

\* a candidate without content failed while prompt feedback was present
C17_Witness ==
    /\ result.made
    /\ Len(resp.Candidates) > 0
    /\ ~FirstUsable(resp)
    /\ resp.Candidates[1].FinishReason = "MAX_TOKENS"
    /\ ~resp.PromptFeedback.nil
    /\ resp.PromptFeedback.BlockReason = "SAFETY"

\* ------------------------------------------------------------------ C18
\* C18: a failure response has a non-empty error code and a non-empty
\* error message.
C18_ErrorNeverEmpty ==
    (result.made /\ IsError(result.r)) =>
        /\ ~result.r.ErrorCode.nil /\ result.r.ErrorCode.s # ""
        /\ ~result.r.ErrorMessage.nil /\ result.r.ErrorMessage.s # ""

\* ======================================================== payload sharing
\* A ModelInfo holds Profiles []string, a slice: a header that points into
\* a backing array.  Register stores the struct it is given, Resolve and
\* the list queries hand out copies of the struct; a copy of the struct
\* copies the header, not the array.  The registry operations are those of
\* package models above, one call at a time.

\* -------------------------------------------------------------- bounds
MaxArrays == 1

\* the profile lists a caller registers, and the values it writes
ProfileNames == {"chat", "agent"}
ProfileLists == [1..1 -> ProfileNames] \cup [1..2 -> ProfileNames]

Addresses == 1..MaxArrays

\* []string{...}: a new backing array at address a, and the slice over it
SliceHeader(a, list) == [ptr |-> a, len |-> Len(list)]

\* the elements a slice header gives access to
Deref(hp, slice) == SubSeq(hp[slice.ptr], 1, slice.len)

\* a ModelInfo with its profiles by value
Deep(hp, info) ==
    [ID |-> info.ID, Profiles |-> Deref(hp, info.Profiles),
     MaxTokens |-> info.MaxTokens]

RECURSIVE ByProfile(_, _, _, _, _)
\* ListModelsByProfile, the range loop, visiting order[i], order[i+1], ...
ByProfile(reg, hp, order, i, profile) ==
    IF i > Len(order) THEN <<>>
    ELSE LET info == reg[order[i]]
             rest == ByProfile(reg, hp, order, i + 1, profile)
         IN  IF \E k \in 1..info.Profiles.len :
                    hp[info.Profiles.ptr][k] = profile
             THEN <<info>> \o rest
             ELSE rest

\* ListModelsByProfile: the slices it can return
ListModelsByProfile(reg, hp, profile) ==
    {ByProfile(reg, hp, order, 1, profile) : order \in Orders(DOMAIN reg)}

InitSharing ==
    /\ heap = EmptyMap
    /\ infoReg = EmptyMap
    /\ infoCache = EmptyMap
    /\ got = <<>>
    /\ registered = EmptyMap
    /\ RegistryIdle
    /\ NormalizerIdle
    /\ OptionsIdle
    /\ ConfigIdle
    /\ RetryIdle
    /\ CallIdle
    /\ BuiltinIdle
    /\ LockIdle

\* a caller builds a ModelInfo with a profile list and registers it
ShareRegister(regexPattern, list, maxTokens) ==
    /\ \E a \in Addresses \ DOMAIN heap :
          LET info == [ID |-> RegisteredID,
                       Profiles |-> SliceHeader(a, list),
                       MaxTokens |-> maxTokens]
              r == ModelsRegister(infoReg, infoCache, regexPattern, info)
          IN  /\ a = Cardinality(DOMAIN heap) + 1
              /\ heap' = Put(heap, a, list)
              /\ infoReg' = r.registry
              /\ infoCache' = r.cache
              /\ registered' = IF r.ok
                               THEN Put(registered, regexPattern,
                                        Deep(heap', info))
                               ELSE registered
    /\ UNCHANGED <<got, vars, nvars, ovars, cvars, rvars, kvars, bvars, lvars>>

\* a caller resolves an identifier and keeps the ModelInfo it is handed
ShareResolve(model) ==
    /\ \E rl \in {ModelsResolveRLocked(infoCache, model)} :
          IF rl.found
          THEN /\ got' = <<rl.info>>
               /\ UNCHANGED infoCache
          ELSE \E o \in ModelsResolveLocked(infoReg, infoCache, model) :
                  /\ infoCache' = o.cache
                  /\ got' = IF o.ok THEN <<o.info>> ELSE <<>>
    /\ UNCHANGED <<heap, infoReg, registered, vars, nvars, ovars,
                 cvars, rvars, kvars, bvars, lvars>>

\* a caller lists the models of a profile and keeps one of them
ShareListByProfile(profile) ==
    /\ \E models \in ListModelsByProfile(infoReg, heap, profile) :
          \E i \in 1..Len(models) : got' = <<models[i]>>
    /\ UNCHANGED <<heap, infoReg, infoCache, registered, vars, nvars, ovars,
                 cvars, rvars, kvars, bvars, lvars>>

\* the caller assigns to a scalar field of the ModelInfo it holds
CallerSetsMaxTokens(maxTokens) ==
    /\ got # <<>>
    /\ got' = <<[got[1] EXCEPT !.MaxTokens = maxTokens]>>
    /\ UNCHANGED <<heap, infoReg, infoCache, registered, vars, nvars, ovars,
                 cvars, rvars, kvars, bvars, lvars>>

\* the caller assigns to an element of the Profiles of the ModelInfo it holds
CallerSetsProfile(i, profile) ==
    /\ got # <<>>
    /\ i \in 1..got[1].Profiles.len
    /\ heap' = [heap EXCEPT ![got[1].Profiles.ptr][i] = profile]
    /\ UNCHANGED <<infoReg, infoCache, got, registered, vars, nvars, ovars,
                 cvars, rvars, kvars, bvars, lvars>>

\* ClearRegistry
ShareClear ==
    /\ LET r == ClearRegistry(infoReg, infoCache)
       IN  infoReg' = r.registry /\ infoCache' = r.cache
    /\ registered' = EmptyMap
    /\ UNCHANGED <<heap, got, vars, nvars, ovars, cvars, rvars, kvars, bvars, lvars>>

NextSharing ==
    \/ \E p \in Patterns : \E list \in ProfileLists :
          \E mt \in 1..MaxPayload : ShareRegister(p, list, mt)
    \/ \E id \in Ids : ShareResolve(id)
    \/ \E profile \in ProfileNames : ShareListByProfile(profile)
    \/ \E mt \in 1..MaxPayload : CallerSetsMaxTokens(mt)
    \/ \E i \in 1..2 : \E profile \in ProfileNames :
          CallerSetsProfile(i, profile)
    \/ ShareClear

SpecSharing == InitSharing /\ [][NextSharing]_ivars

\* ------------------------------------------------------------------ C14
\* C14: whatever a caller does to a ModelInfo it was handed, the registry
\* holds for every pattern what was registered for it, and every cached
\* resolution is the registered payload of a matching pattern.
C14_PayloadIsolated ==
    /\ \A p \in DOMAIN infoReg : Deep(heap, infoReg[p]) = registered[p]
    /\ \A id \in DOMAIN infoCache :
          \E p \in DOMAIN registered :
              /\ Matches(p, id)
              /\ Deep(heap, infoCache[id]) = [registered[p] EXCEPT !.ID = id]

\* ======================================================== option pipeline
\* An Option is a function from *LLMConfig to error.  A constructor takes
\* DefaultLLMConfig(), runs ApplyOptions over the options it was given
\* and then checks the field it requires.  An error is the chain of its
\* messages, outermost first; the nil error is the empty chain.

\* -------------------------------------------------------------- bounds
MaxOpts == 4

DefaultTimeoutSeconds == 30

nil == <<>>

\* fmt.Errorf(msg + ": %w", err)
Wrap(msg, err) == <<msg>> \o err

\* the options a caller passes: the With* functions with their argument,
\* and an Option of the caller's own that returns an error
Option ==
    [kind : {"WithAPIKey"}, str : {"", "k1", "k2"}, num : {0}]
    \cup [kind : {"WithEndpoint"}, str : {"", "e1"}, num : {0}]
    \cup [kind : {"WithTimeout"}, str : {""}, num : {0, DefaultTimeoutSeconds + 1}]
    \cup [kind : {"func"}, str : {"E1", "E2"}, num : {0}]

OptionLists == UNION {[1..n -> Option] : n \in 0..MaxOpts}

DefaultLLMConfig ==
    [APIKey |-> "", OrgID |-> "", EndpointOverride |-> "",
     Timeout |-> DefaultTimeoutSeconds]

\* opt(config)
Call(opt, config) ==
    CASE opt.kind = "WithAPIKey" ->
            [config |-> [config EXCEPT !.APIKey = opt.str], err |-> nil]
      [] opt.kind = "WithEndpoint" ->
            [config |-> [config EXCEPT !.EndpointOverride = opt.str],
             err |-> nil]
      [] opt.kind = "WithTimeout" ->
            [config |-> [config EXCEPT !.Timeout = opt.num], err |-> nil]
      [] opt.kind = "func" ->
            [config |-> config, err |-> <<opt.str>>]

RECURSIVE ApplyFrom(_, _, _)
\* ApplyOptions, the range loop from opts[i] on; invoked lists the
\* positions of the options called, in the order of the calls
ApplyFrom(config, opts, i) ==
    IF i > Len(opts)
    THEN [config |-> config, err |-> nil, invoked |-> <<>>]
    ELSE LET r == Call(opts[i], config)
         IN  IF r.err # nil
             THEN [config |-> r.config, err |-> r.err, invoked |-> <<i>>]
             ELSE LET rest == ApplyFrom(r.config, opts, i + 1)
                  IN  [rest EXCEPT !.invoked = <<i>> \o rest.invoked]

ApplyOptionsLastFirst(config, opts) ==
    ApplyFrom(config, [i \in 1..Len(opts) |-> opts[Len(opts) + 1 - i]], 1)
ApplyOptions(config, opts) == ApplyFrom(config, opts, 1)

\* the (common.LLM, error) a constructor returns
NoClient == [nil |-> TRUE, config |-> DefaultLLMConfig, modelName |-> ""]
Client(config, model) == [nil |-> FALSE, config |-> config, modelName |-> model]

NewAnthropicClientChecksDefaults(model, opts) ==
    LET config == DefaultLLMConfig
        r == ApplyOptions(config, opts)
    IN  IF config.APIKey = ""
        THEN [client |-> NoClient, err |-> <<"Anthropic API key is required">>]
        ELSE IF r.err # nil
        THEN [client |-> NoClient, err |-> Wrap("applying options", r.err)]
        ELSE [client |-> Client(r.config, model), err |-> nil]
NewAnthropicClient(model, opts) ==
    LET config == DefaultLLMConfig
        r == ApplyOptions(config, opts)
    IN  IF r.err # nil
        THEN [client |-> NoClient, err |-> Wrap("applying options", r.err)]
        ELSE IF r.config.APIKey = ""
        THEN [client |-> NoClient, err |-> <<"Anthropic API key is required">>]
        ELSE [client |-> Client(r.config, model), err |-> nil]

NewCustomClient(model, opts) ==
    LET config == DefaultLLMConfig
        r == ApplyOptions(config, opts)
    IN  IF r.err # nil
        THEN [client |-> NoClient, err |-> Wrap("applying options", r.err)]
        ELSE IF r.config.EndpointOverride = ""
        THEN [client |-> NoClient,
              err |-> <<"custom model requires EndpointOverride to be set">>]
        ELSE [client |-> Client(r.config, model), err |-> nil]

Connectors == {"anthropic", "custom"}

\* the constructor of a connector
New(connector, model, opts) ==
    IF connector = "anthropic" THEN NewAnthropicClient(model, opts)
    ELSE NewCustomClient(model, opts)

InitOptions ==
    /\ optInput \in [connector : Connectors, model : {"m"}, opts : OptionLists]
    /\ applied = [made |-> FALSE, r |-> ApplyOptions(DefaultLLMConfig, <<>>)]
    /\ built = [made |-> FALSE, r |-> [client |-> NoClient, err |-> nil]]
    /\ RegistryIdle
    /\ NormalizerIdle
    /\ SharingIdle
    /\ ConfigIdle
    /\ RetryIdle
    /\ CallIdle
    /\ BuiltinIdle
    /\ LockIdle

\* a caller runs ApplyOptions over a default configuration
Apply ==
    /\ ~applied.made
    /\ applied' = [made |-> TRUE,
                   r |-> ApplyOptions(DefaultLLMConfig, optInput.opts)]
    /\ UNCHANGED <<optInput, built, vars, nvars, ivars,
                 cvars, rvars, kvars, bvars, lvars>>

\* a caller constructs a client
Build ==
    /\ ~built.made
    /\ built' = [made |-> TRUE,
                 r |-> New(optInput.connector, optInput.model, optInput.opts)]
    /\ UNCHANGED <<optInput, applied, vars, nvars, ivars,
                 cvars, rvars, kvars, bvars, lvars>>

NextOptions == Apply \/ Build

SpecOptions == InitOptions /\ [][NextOptions]_ovars

\* ------------------------------------------------------------------ C19
\* the positions of the options that return an error
Failing(opts) == {i \in 1..Len(opts) : opts[i].kind = "func"}

\* how many options run: up to and including the first that fails
Ran(opts) ==
    IF Failing(opts) = {} THEN Len(opts)
    ELSE CHOOSE i \in Failing(opts) : \A j \in Failing(opts) : i <= j

\* the positions among the first n that set a field
Setters(opts, n, kind) == {i \in 1..n : opts[i].kind = kind}

\* the last of a non-empty set of positions
Last(S) == CHOOSE i \in S : \A j \in S : j <= i

\* C19: ApplyOptions calls the options in the order given; it stops at the
\* first that returns an error, returns that error as it is and calls
\* nothing after it; each field ends with the value of the last option
\* called that sets it, or with its default if none does.
C19_OrderedShortCircuit ==
    applied.made =>
        LET opts == optInput.opts
            n == Ran(opts)
            r == applied.r
            key == Setters(opts, n, "WithAPIKey")
            endpoint == Setters(opts, n, "WithEndpoint")
            timeout == Setters(opts, n, "WithTimeout")
        IN  /\ r.invoked = [i \in 1..n |-> i]
            /\ r.err = IF Failing(opts) = {} THEN nil ELSE <<opts[n].str>>
            /\ r.config.APIKey =
                  IF key = {} THEN DefaultLLMConfig.APIKey
                  ELSE opts[Last(key)].str
            /\ r.config.EndpointOverride =
                  IF endpoint = {} THEN DefaultLLMConfig.EndpointOverride
                  ELSE opts[Last(endpoint)].str
            /\ r.config.Timeout =
                  IF timeout = {} THEN DefaultLLMConfig.Timeout
                  ELSE opts[Last(timeout)].num

\* a field set twice to different values, then a failing option with an
\* option after it
C19_Witness ==
    /\ applied.made
    /\ Len(optInput.opts) = 4
    /\ optInput.opts[1] = [kind |-> "WithAPIKey", str |-> "k1", num |-> 0]
    /\ optInput.opts[2] = [kind |-> "WithAPIKey", str |-> "k2", num |-> 0]
    /\ optInput.opts[3] = [kind |-> "func", str |-> "E1", num |-> 0]
    /\ optInput.opts[4] = [kind |-> "WithAPIKey", str |-> "", num |-> 0]
    /\ applied.r.config.APIKey = "k2"
    /\ applied.r.err = <<"E1">>
    /\ applied.r.invoked = <<1, 2, 3>>

\* ------------------------------------------------------------------ C20
\* the value of the required field of a connector
Required(connector, config) ==
    IF connector = "anthropic" THEN config.APIKey ELSE config.EndpointOverride

\* the words by which an error names the required field of a connector
FieldName(connector) ==
    IF connector = "anthropic" THEN "Anthropic API key is required"
    ELSE "custom model requires EndpointOverride to be set"

\* the required field after every option of the list ran
RequiredAfterAll(connector, opts) ==
    LET kind == IF connector = "anthropic" THEN "WithAPIKey" ELSE "WithEndpoint"
        set == Setters(opts, Len(opts), kind)
    IN  IF set = {} THEN "" ELSE opts[Last(set)].str

\* C20: a constructor returns no client and the error of the pipeline when
\* an option fails; otherwise no client and an error naming its required
\* field exactly when that field is empty after all options ran, wherever
\* in the list it was set or cleared; otherwise a client, with no error,
\* holding the configuration all options produced.
C20_ValidateAfterPipeline ==
    built.made =>
        LET opts == optInput.opts
            c == optInput.connector
            r == built.r
        IN  /\ r.client.nil <=> r.err # nil
            /\ Failing(opts) # {} =>
                  /\ r.client.nil
                  /\ r.err = <<"applying options", opts[Ran(opts)].str>>
            /\ Failing(opts) = {} =>
                  /\ r.client.nil <=> RequiredAfterAll(c, opts) = ""
                  /\ r.client.nil => r.err = <<FieldName(c)>>
                  /\ ~r.client.nil =>
                        /\ Required(c, r.client.config) = RequiredAfterAll(c, opts)
                        /\ r.client.config =
                              ApplyOptions(DefaultLLMConfig, opts).config

\* the key is set and then cleared: no client; cleared and then set: a client
C20_Witness ==
    /\ built.made
    /\ optInput.connector = "anthropic"
    /\ Len(optInput.opts) = 2
    /\ optInput.opts[1] = [kind |-> "WithAPIKey", str |-> "k1", num |-> 0]
    /\ optInput.opts[2] = [kind |-> "WithAPIKey", str |-> "", num |-> 0]
    /\ built.r.client.nil
    /\ built.r.err = <<"Anthropic API key is required">>

\* ================================================= configuration sharing
\* DefaultLLMConfig() makes a new LLMConfig at every call.  Its RetryConfig
\* is a copy of the package variable DefaultRetryConfig, whose
\* StatusCodesToRetry is a slice over the array of DefaultRetryStatusCodes;
\* its CustomOptions is a new map.  A slice is a header [ptr, len] into
\* arrays, a map is an address into optionMaps.

\* -------------------------------------------------------------- bounds
MaxClients == 2

DefaultRetryStatusCodes == <<429, 500, 502, 503, 504>>

\* where the array of DefaultRetryStatusCodes is
DefaultArray == 0

\* the status codes a caller writes, and the lists it passes
StatusCodes == {429, 418}
StatusCodeLists == {<<>>, <<429>>}

CustomKeys == {"k"}
CustomValues == {"v1", "v2"}

\* the initial value of the package variable DefaultRetryConfig
DefaultRetryConfig ==
    [MaxRetries |-> 3, MinBackoff |-> 100, MaxBackoff |-> 5000,
     StatusCodesToRetry |->
         SliceHeader(DefaultArray, DefaultRetryStatusCodes)]

\* the options of a build: none, WithCustomOption(key, value),
\* WithRetryConfig(..., statusCodes) with a list made for the call, and an
\* Option of the caller's own that assigns to an element of
\* config.RetryConfig.StatusCodesToRetry
ConfigOption ==
    [kind : {"none"}, key : {""}, value : {""}, codes : {<<>>}, code : {0}]
    \cup [kind : {"WithCustomOption"}, key : CustomKeys,
          value : CustomValues, codes : {<<>>}, code : {0}]
    \cup [kind : {"WithRetryConfig"}, key : {""}, value : {""},
          codes : StatusCodeLists, code : {0}]
    \cup [kind : {"func"}, key : {""}, value : {""}, codes : {<<>>},
          code : StatusCodes]

\* DefaultLLMConfig(), its CustomOptions made at address m
FreshLLMConfig(retryConfig, m) ==
    [Timeout |-> DefaultTimeoutSeconds, RetryConfig |-> retryConfig,
     CustomOptions |-> m]

\* config.RetryConfig.StatusCodesToRetry[0] = code
SetStatusCode(arr, config, code) ==
    LET slice == config.RetryConfig.StatusCodesToRetry
    IN  IF slice.len = 0 THEN arr
        ELSE [arr EXCEPT ![slice.ptr][1] = code]

\* config.CustomOptions[key] = value
SetCustomOption(maps, config, key, value) ==
    [maps EXCEPT ![config.CustomOptions] = Put(@, key, value)]

InitConfig ==
    /\ arrays = [a \in {DefaultArray} |-> DefaultRetryStatusCodes]
    /\ optionMaps = EmptyMap
    /\ defaults = DefaultRetryConfig
    /\ clients = <<>>
    /\ RegistryIdle
    /\ NormalizerIdle
    /\ OptionsIdle
    /\ SharingIdle
    /\ RetryIdle
    /\ CallIdle
    /\ BuiltinIdle
    /\ LockIdle

\* a constructor: DefaultLLMConfig(), then ApplyOptions with one option
BuildConfig(opt) ==
    /\ Len(clients) < MaxClients
    /\ LET c == Len(clients) + 1
           config == FreshLLMConfig(defaults, c)
           maps == Put(optionMaps, c, EmptyMap)
       IN  CASE opt.kind = "none" ->
                  /\ clients' = Append(clients, config)
                  /\ optionMaps' = maps
                  /\ UNCHANGED arrays
             [] opt.kind = "WithCustomOption" ->
                  /\ clients' = Append(clients, config)
                  /\ optionMaps' =
                        SetCustomOption(maps, config, opt.key, opt.value)
                  /\ UNCHANGED arrays
             [] opt.kind = "WithRetryConfig" ->
                  /\ clients' = Append(clients,
                        [config EXCEPT !.RetryConfig.StatusCodesToRetry =
                                           SliceHeader(c, opt.codes)])
                  /\ arrays' = Put(arrays, c, opt.codes)
                  /\ optionMaps' = maps
             [] opt.kind = "func" ->
                  /\ clients' = Append(clients, config)
                  /\ arrays' = SetStatusCode(arrays, config, opt.code)
                  /\ optionMaps' = maps
    /\ UNCHANGED <<defaults, vars, nvars, ovars, ivars, rvars, kvars, bvars, lvars>>

\* the holder of a built configuration assigns to an element of its
\* status-code list
ClientSetsStatusCode(c, code) ==
    /\ c \in 1..Len(clients)
    /\ arrays' = SetStatusCode(arrays, clients[c], code)
    /\ UNCHANGED <<optionMaps, defaults, clients,
                   vars, nvars, ovars, ivars, rvars, kvars, bvars, lvars>>

\* the holder of a built configuration sets a custom option
ClientSetsCustomOption(c, key, value) ==
    /\ c \in 1..Len(clients)
    /\ optionMaps' = SetCustomOption(optionMaps, clients[c], key, value)
    /\ UNCHANGED <<arrays, defaults, clients,
                   vars, nvars, ovars, ivars, rvars, kvars, bvars, lvars>>

\* the holder of a built configuration sets its timeout
ClientSetsTimeout(c, timeoutSec) ==
    /\ c \in 1..Len(clients)
    /\ clients' = [clients EXCEPT ![c].Timeout = timeoutSec]
    /\ UNCHANGED <<arrays, optionMaps, defaults,
                   vars, nvars, ovars, ivars, rvars, kvars, bvars, lvars>>

NextConfig ==
    \/ \E opt \in ConfigOption : BuildConfig(opt)
    \/ \E c \in 1..MaxClients : \E code \in StatusCodes :
          ClientSetsStatusCode(c, code)
    \/ \E c \in 1..MaxClients : \E key \in CustomKeys :
          \E value \in CustomValues : ClientSetsCustomOption(c, key, value)
    \/ \E c \in 1..MaxClients :
          \E timeoutSec \in {0, DefaultTimeoutSeconds} :
              ClientSetsTimeout(c, timeoutSec)

SpecConfig == InitConfig /\ [][NextConfig]_cvars

\* ------------------------------------------------------------------ C21
\* C21: the package defaults stay as they were declared, and no status-code
\* array or custom-option map is shared between two built configurations
\* or between a built configuration and the defaults.
C21_BuildPerCallIsolated ==
    /\ Deref(arrays, defaults.StatusCodesToRetry) = DefaultRetryStatusCodes
    /\ \A c \in 1..Len(clients) :
          clients[c].RetryConfig.StatusCodesToRetry.ptr
              # defaults.StatusCodesToRetry.ptr
    /\ \A c, d \in 1..Len(clients) :
          c # d =>
              /\ clients[c].RetryConfig.StatusCodesToRetry.ptr
                    # clients[d].RetryConfig.StatusCodesToRetry.ptr
              /\ clients[c].CustomOptions # clients[d].CustomOptions

\* ================================================================ timeouts
\* What is made from config.Timeout, in seconds.

\* NewHTTPClientWithTimeout(timeoutSec): the Timeout of the http.Client
NewHTTPClientWithTimeout(timeoutSec) ==
    [Timeout |-> IF timeoutSec <= 0 THEN DefaultTimeoutSeconds
                 ELSE timeoutSec]

\* WithContext(parent, timeoutSec): the timeout of the derived context
WithContext(timeoutSec) ==
    [timeout |-> IF timeoutSec <= 0 THEN DefaultTimeoutSeconds
                 ELSE timeoutSec]

\* NewAnthropicClient, the request timeout among clientOpts: the option
\* is appended only for a positive config.Timeout
RequestTimeout(config) ==
    IF config.Timeout > 0
    THEN [set |-> TRUE, seconds |-> config.Timeout]
    ELSE [set |-> FALSE, seconds |-> 0]

\* ------------------------------------------------------------------ C22
\* C22: whatever timeout the options leave in the configuration of a
\* client, the HTTP client and the context derived from it have a
\* positive timeout, and the Anthropic client is created with a request
\* timeout that is set and positive.
C22_TimeoutNeverDisabled ==
    (built.made /\ ~built.r.client.nil) =>
        LET config == built.r.client.config
        IN  /\ NewHTTPClientWithTimeout(config.Timeout).Timeout > 0
            /\ WithContext(config.Timeout).timeout > 0
            /\ optInput.connector = "anthropic" =>
                  /\ RequestTimeout(config).set
                  /\ RequestTimeout(config).seconds > 0

\* =========================================================== retry helpers
\* CalculateBackoff and ShouldRetry are functions of their arguments and,
\* for the jitter, of the clock.  Durations are in milliseconds.

\* -------------------------------------------------------------- bounds
MaxAttempt == 4
MaxCodes == 2

\* time.Now().UnixNano() % 1000, from which rand() makes a float in [0,1)
NanosModulus == 1000
Nanos == {0, 250, 500, 750, NanosModulus - 1}

MinBackoffs == {-100, 0, 100}
MaxBackoffs == {-5000, 0, 250, 5000}

StatusCodeSlices ==
    UNION {[1..n -> {429, 500}] : n \in 0..MaxCodes}

RetryConfig ==
    [MaxRetries : {3}, MinBackoff : MinBackoffs, MaxBackoff : MaxBackoffs,
     StatusCodesToRetry : StatusCodeSlices]

RECURSIVE Pow2(_)
\* math.Pow(2, n) for n >= 0
Pow2(n) == IF n = 0 THEN 1 ELSE 2 * Pow2(n - 1)

\* math.Min
Min(x, y) == IF x <= y THEN x ELSE y

\* time.Duration(x) of the quotient n / d, d > 0: the fraction is dropped
Truncate(n, d) == IF n >= 0 THEN n \div d ELSE -((-n) \div d)

\* CalculateBackoff before the jitter: min(MaxBackoff, MinBackoff * 2^attempt)
Backoff(attempt, config) ==
    LET a == IF attempt < 0 THEN 0 ELSE attempt
    IN  Min(config.MinBackoff * Pow2(a), config.MaxBackoff)

\* CalculateBackoff, with rand() = nanos / 1000:
\* backoff + backoff * 0.2 * (2 * rand() - 1)
\*     = backoff * (4 * NanosModulus + 2 * nanos) / (5 * NanosModulus)
CalculateBackoff(attempt, config, nanos) ==
    Truncate(Backoff(attempt, config) * (4 * NanosModulus + 2 * nanos),
             5 * NanosModulus)

RECURSIVE ShouldRetryFrom(_, _, _)
\* ShouldRetry, the range loop from StatusCodesToRetry[i] on
ShouldRetryFrom(statusCode, codes, i) ==
    IF i > Len(codes) THEN FALSE
    ELSE IF statusCode = codes[i] THEN TRUE
    ELSE ShouldRetryFrom(statusCode, codes, i + 1)

ShouldRetryFirstCode(statusCode, config) ==
    Len(config.StatusCodesToRetry) > 0
        /\ statusCode = config.StatusCodesToRetry[1]
ShouldRetry(statusCode, config) ==
    ShouldRetryFrom(statusCode, config.StatusCodesToRetry, 1)

InitRetry ==
    /\ retryInput \in [attempt : -1..MaxAttempt, config : RetryConfig,
                       nanos : Nanos, statusCode : {429, 500, 404}]
    /\ backoff = [made |-> FALSE, d |-> 0]
    /\ retry = [made |-> FALSE, b |-> FALSE]
    /\ RegistryIdle
    /\ NormalizerIdle
    /\ OptionsIdle
    /\ SharingIdle
    /\ ConfigIdle
    /\ CallIdle
    /\ BuiltinIdle
    /\ LockIdle

\* a caller computes the backoff of an attempt
CallCalculateBackoff ==
    /\ ~backoff.made
    /\ backoff' = [made |-> TRUE,
                   d |-> CalculateBackoff(retryInput.attempt,
                                          retryInput.config,
                                          retryInput.nanos)]
    /\ UNCHANGED <<retryInput, retry,
                   vars, nvars, ovars, ivars, cvars, kvars, bvars, lvars>>

\* a caller classifies a status code
CallShouldRetry ==
    /\ ~retry.made
    /\ retry' = [made |-> TRUE,
                 b |-> ShouldRetry(retryInput.statusCode, retryInput.config)]
    /\ UNCHANGED <<retryInput, backoff,
                   vars, nvars, ovars, ivars, cvars, kvars, bvars, lvars>>

NextRetry == CallCalculateBackoff \/ CallShouldRetry

SpecRetry == InitRetry /\ [][NextRetry]_rvars

\* ------------------------------------------------------------------ C23
\* C23: the backoff is never negative and never more than 1.2 times
\* MaxBackoff, and the backoff before the jitter does not decrease from
\* one attempt to the next.
C23_BackoffBounds ==
    backoff.made =>
        /\ backoff.d >= 0
        /\ 10 * backoff.d <= 12 * retryInput.config.MaxBackoff
        /\ Backoff(retryInput.attempt, retryInput.config)
              <= Backoff(retryInput.attempt + 1, retryInput.config)

\* ------------------------------------------------------------------ C24
\* C24: ShouldRetry is true exactly when the status code is an element of
\* StatusCodesToRetry, so never for an empty list; the call leaves its
\* arguments as they were.
C24_RetryIffMember ==
    /\ retry.made =>
          (retry.b <=>
              \E i \in 1..Len(retryInput.config.StatusCodesToRetry) :
                  retryInput.config.StatusCodesToRetry[i]
                      = retryInput.statusCode)
    /\ (retry.made /\ retryInput.config.StatusCodesToRetry = <<>>) =>
          ~retry.b

\* the code is the second element of the list
C24_Witness ==
    /\ retry.made
    /\ retry.b
    /\ retryInput.config.StatusCodesToRetry = <<500, 429>>
    /\ retryInput.statusCode = 429

\* ================================================================== calls
\* Call checks the context, validates the request and only then reaches
\* the provider; BatchCall calls Call for each request in turn.  The
\* caller's context can be cancelled at any moment between two steps.

\* -------------------------------------------------------------- bounds
MaxBatch == 3

\* context.Canceled
Canceled == <<"context canceled">>

\* the requests a caller passes: Model and Contents
LLMRequest == [Model : {"", "m"}, Contents : {<<>>, <<"user">>}]

RequestLists == UNION {[1..n -> LLMRequest] : n \in 0..MaxBatch}

\* what the provider does with a request it is given: the custom
\* connector makes its response itself, the Anthropic API can fail
ProviderOutcomes(connector) ==
    IF connector = "anthropic" THEN {"ok", "failed"} ELSE {"ok"}

NoResponse == [nil |-> TRUE, Content |-> ""]
Response == [nil |-> FALSE, Content |-> "assistant"]

\* LLMRequest.Validate
Validate(r) ==
    IF r.Model = "" THEN <<"model ID is required">>
    ELSE IF Len(r.Contents) = 0
    THEN <<"request must contain at least one content message">>
    ELSE nil

\* Call that validates the request before it looks at the context
ClientCallValidatesFirst(connector, err, request, outcome) ==
    IF Validate(request) # nil
    THEN [resp |-> NoResponse,
          err |-> Wrap("invalid request", Validate(request)),
          invoked |-> FALSE]
    ELSE IF err # nil
    THEN [resp |-> NoResponse, err |-> err, invoked |-> FALSE]
    ELSE IF outcome = "failed"
    THEN [resp |-> NoResponse,
          err |-> Wrap("Anthropic API call failed", <<"E">>),
          invoked |-> TRUE]
    ELSE [resp |-> Response, err |-> nil, invoked |-> TRUE]
\* Call(ctx, request) of a connector, with ctx.Err() = err and a provider
\* that would answer with outcome
ClientCall(connector, err, request, outcome) ==
    IF err # nil
    THEN [resp |-> NoResponse, err |-> err, invoked |-> FALSE]
    ELSE IF Validate(request) # nil
    THEN [resp |-> NoResponse,
          err |-> Wrap("invalid request", Validate(request)),
          invoked |-> FALSE]
    ELSE IF outcome = "failed"
    THEN [resp |-> NoResponse,
          err |-> Wrap("Anthropic API call failed", <<"E">>),
          invoked |-> TRUE]
    ELSE [resp |-> Response, err |-> nil, invoked |-> TRUE]

\* the error BatchCall returns
NoBatchErr == [returned |-> FALSE, nil |-> TRUE, index |-> 0, wraps |-> nil]

\* a loop that goes on to the next request after a failure
BatchCallStepGoesOn(resps, i, r) ==
    [responses |-> [resps EXCEPT ![i] = r.resp],
     position |-> i + 1,
     err |-> NoBatchErr]
\* BatchCall, one iteration of the loop at the i-th request, Call having
\* returned r: responses[i], err = c.Call(ctx, req) and the test of err
BatchCallStep(resps, i, r) ==
    [responses |-> [resps EXCEPT ![i] = r.resp],
     position |-> IF r.err # nil THEN i ELSE i + 1,
     err |-> IF r.err # nil
             THEN [returned |-> TRUE, nil |-> FALSE, index |-> i - 1,
                   wraps |-> r.err]
             ELSE NoBatchErr]

NoCall ==
    [made |-> FALSE, ctxErr |-> nil, index |-> 0,
     r |-> [resp |-> NoResponse, err |-> nil, invoked |-> FALSE]]

InitCall ==
    /\ ctxErr = nil
    /\ batch \in [connector : Connectors, requests : RequestLists]
    /\ position = 1
    /\ responses = [i \in 1..Len(batch.requests) |-> NoResponse]
    /\ batchErr = NoBatchErr
    /\ provider = <<>>
    /\ last = NoCall
    /\ RegistryIdle
    /\ NormalizerIdle
    /\ OptionsIdle
    /\ SharingIdle
    /\ ConfigIdle
    /\ RetryIdle
    /\ BuiltinIdle
    /\ LockIdle

\* the caller cancels its context
Cancel ==
    /\ ctxErr = nil
    /\ ctxErr' = Canceled
    /\ UNCHANGED <<batch, position, responses, batchErr, provider, last,
                   vars, nvars, ovars, ivars, cvars, rvars, bvars, lvars>>

\* one iteration of the loop of BatchCall
BatchCallIterate ==
    /\ ~batchErr.returned
    /\ position <= Len(batch.requests)
    /\ \E outcome \in ProviderOutcomes(batch.connector) :
          LET r == ClientCall(batch.connector, ctxErr,
                              batch.requests[position], outcome)
              step == BatchCallStep(responses, position, r)
          IN  /\ responses' = step.responses
              /\ position' = step.position
              /\ batchErr' = step.err
              /\ provider' = IF r.invoked THEN Append(provider, position)
                             ELSE provider
              /\ last' = [made |-> TRUE, ctxErr |-> ctxErr,
                          index |-> position, r |-> r]
    /\ UNCHANGED <<ctxErr, batch,
                   vars, nvars, ovars, ivars, cvars, rvars, bvars, lvars>>

\* BatchCall returns after the loop
BatchCallReturn ==
    /\ ~batchErr.returned
    /\ position > Len(batch.requests)
    /\ batchErr' = [NoBatchErr EXCEPT !.returned = TRUE]
    /\ UNCHANGED <<ctxErr, batch, position, responses, provider, last,
                   vars, nvars, ovars, ivars, cvars, rvars, bvars, lvars>>

NextCall == Cancel \/ BatchCallIterate \/ BatchCallReturn

SpecCall == InitCall /\ [][NextCall]_kvars

\* ------------------------------------------------------------------ C26
\* the request a Call was made with
LastRequest == batch.requests[last.index]

Invalid(r) == r.Model = "" \/ Len(r.Contents) = 0

\* C26: a Call made with a cancelled context returns the context's error
\* and nothing else; otherwise a Call with an empty Model or no Contents
\* returns a validation error; in both cases there is no response and the
\* provider is not reached.  Validate fails exactly for an empty Model or
\* empty Contents.
C26_ChecksInOrder ==
    /\ last.made =>
          /\ last.ctxErr # nil =>
                /\ last.r.err = last.ctxErr
                /\ last.r.resp.nil
                /\ ~last.r.invoked
          /\ (last.ctxErr = nil /\ Invalid(LastRequest)) =>
                /\ last.r.err = Wrap("invalid request", Validate(LastRequest))
                /\ last.r.resp.nil
                /\ ~last.r.invoked
          /\ ~last.r.invoked => provider = SelectSeq(provider,
                                    LAMBDA i : i # last.index)
    /\ \A r \in LLMRequest : Validate(r) # nil <=> Invalid(r)

\* a Call with a cancelled context and an invalid request
C26_Witness ==
    /\ last.made
    /\ last.ctxErr = Canceled
    /\ Invalid(LastRequest)
    /\ last.r.err = Canceled

\* ------------------------------------------------------------------ C27
\* C27: when BatchCall returns without error there is a response for every
\* request and the provider was given the requests in their order; when it
\* returns an error, the error names the 0-based index i of the request
\* whose Call failed and wraps the error of that Call, the requests before
\* i have a response, i and the requests after it have none, and the
\* provider was given no request after i.
C27_FailFastBatch ==
    batchErr.returned =>
        LET n == Len(batch.requests)
        IN  /\ Len(responses) = n
            /\ \A j, k \in 1..Len(provider) : j < k => provider[j] < provider[k]
            /\ batchErr.nil =>
                  /\ \A j \in 1..n : ~responses[j].nil
                  /\ provider = [j \in 1..n |-> j]
            /\ ~batchErr.nil =>
                  LET i == batchErr.index + 1
                  IN  /\ i \in 1..n
                      /\ last.index = i
                      /\ batchErr.wraps = last.r.err
                      /\ last.r.err # nil
                      /\ \A j \in 1..(i - 1) : ~responses[j].nil
                      /\ \A j \in i..n : responses[j].nil
                      /\ \A j \in 1..Len(provider) : provider[j] <= i

\* three requests, the second fails at the provider
C27_Witness ==
    /\ batchErr.returned
    /\ ~batchErr.nil
    /\ Len(batch.requests) = 3
    /\ batchErr.index = 1
    /\ provider = <<1, 2>>
    /\ ~responses[1].nil
    /\ responses[3].nil

\* =================================================== built-in registrations
\* Package models after Init(): the registrations Init() makes, one
\* Register call at a time, and Resolve calls of built-in identifiers.

\* CostPerToken is kept in millionths (0.00001 is 10)
BuiltinModelInfo(id, profiles, maxTokens, costPerToken, prov, tier) ==
    [ID |-> id, Profiles |-> profiles, MaxTokens |-> maxTokens,
     CostPerToken |-> costPerToken, Provider |-> prov,
     CostTier |-> tier, Version |-> "1.0"]

\* NewModelInfo(info, patterns...): the Register calls it makes, in order
\* (it stops at a Register that fails; every pattern of Init() compiles)
NewModelInfo(info, patterns) ==
    [k \in 1..Len(patterns) |-> [regexPattern |-> patterns[k], info |-> info]]

\* Init(): the Register calls its seven NewModelInfo calls make, in order
InitRegisterCalls ==
    NewModelInfo(BuiltinModelInfo(IDGPT4Turbo,
                     <<"chat", "thinking", "agent", "rag">>,
                     128000, 10, "openai", "premium"),
                 <<PatGPT4TurboAny>>)
    \o NewModelInfo(BuiltinModelInfo(IDGPT4,
                     <<"chat", "thinking", "agent">>,
                     8192, 30, "openai", "premium"),
                 <<PatGPT4End, PatGPT4DashAny>>)
    \o NewModelInfo(BuiltinModelInfo(IDGPT35Turbo,
                     <<"chat", "agent">>,
                     16385, 2, "openai", "standard"),
                 <<PatGPT35TurboAny>>)
    \o NewModelInfo(BuiltinModelInfo(IDClaude3Opus,
                     <<"chat", "thinking", "rag", "creative">>,
                     200000, 20, "anthropic", "premium"),
                 <<PatClaude3OpusAny>>)
    \o NewModelInfo(BuiltinModelInfo(IDClaude3Sonnet,
                     <<"chat", "thinking", "rag">>,
                     200000, 10, "anthropic", "standard"),
                 <<PatClaude3SonnetAny>>)
    \o NewModelInfo(BuiltinModelInfo(IDGeminiPro,
                     <<"chat", "agent", "rag">>,
                     32768, 5, "google", "standard"),
                 <<PatGeminiProAny>>)
    \o NewModelInfo(BuiltinModelInfo(IDMistralLarge,
                     <<"chat", "thinking">>,
                     32768, 8, "mistral", "standard"),
                 <<PatMistralLargeAny>>)

RECURSIVE ModelsRange(_, _, _, _)
\* Resolve, the range loop over registry when the keys in unvisited are
\* still to come: the loop visits them in an order Go does not specify,
\* and returns at the first one that matches or fails to compile
ModelsRange(reg, cch, unvisited, model) ==
    IF unvisited = {}
    THEN {[ok |-> FALSE, err |-> "notfound", info |-> None, cache |-> cch]}
    ELSE UNION {
           LET m == MatchString(pattern, model)
           IN  IF m.err
               THEN {[ok |-> FALSE, err |-> "invalidregex", info |-> None,
                      cache |-> cch]}
               ELSE IF m.matched
               THEN LET resolvedInfo == [reg[pattern] EXCEPT !.ID = model]
                    IN  {[ok |-> TRUE, err |-> None, info |-> resolvedInfo,
                          cache |-> Put(cch, model, resolvedInfo)]}
               ELSE ModelsRange(reg, cch, unvisited \ {pattern}, model)
           : pattern \in unvisited}

\* Resolve, from mu.RLock() to its return: the cache lookup under the read
\* lock, the second lookup under the write lock, then the range loop
ModelsResolve(reg, cch, model) ==
    IF ModelsResolveRLocked(cch, model).found
    THEN {[ok |-> TRUE, err |-> None,
           info |-> ModelsResolveRLocked(cch, model).info, cache |-> cch]}
    ELSE IF model \in DOMAIN cch
    THEN {[ok |-> TRUE, err |-> None, info |-> cch[model], cache |-> cch]}
    ELSE ModelsRange(reg, cch, DOMAIN reg, model)

\* no Resolve has returned at this step
NoResolve == [op |-> None, id |-> <<>>, ok |-> FALSE, err |-> None]

\* the program starts with both maps empty
InitBuiltin ==
    /\ RegistryIdle /\ NormalizerIdle /\ SharingIdle /\ OptionsIdle
    /\ ConfigIdle /\ RetryIdle /\ CallIdle /\ LockIdle
    /\ initStep = 0
    /\ initReg = EmptyMap
    /\ initCache = EmptyMap
    /\ initRet = NoResolve

\* Init() makes its next Register call
InitRegister ==
    /\ UNCHANGED <<vars, nvars, ovars, ivars, cvars, rvars, kvars, lvars>>
    /\ initStep < Len(InitRegisterCalls)
    /\ LET call == InitRegisterCalls[initStep + 1]
           r == ModelsRegister(initReg, initCache, call.regexPattern,
                               call.info)
       IN  /\ initReg' = r.registry
           /\ initCache' = r.cache
    /\ initStep' = initStep + 1
    /\ initRet' = NoResolve

\* a caller resolves an identifier
BuiltinResolve(model) ==
    /\ UNCHANGED <<vars, nvars, ovars, ivars, cvars, rvars, kvars, lvars>>
    /\ \E o \in ModelsResolve(initReg, initCache, model) :
          /\ initCache' = o.cache
          /\ initRet' = IF o.ok
                        THEN [op |-> "Resolve", id |-> model, ok |-> TRUE,
                              err |-> None, info |-> o.info]
                        ELSE [op |-> "Resolve", id |-> model, ok |-> FALSE,
                              err |-> o.err]
    /\ UNCHANGED <<initStep, initReg>>

NextBuiltin ==
    \/ InitRegister
    \/ \E model \in BuiltinIds : BuiltinResolve(model)

SpecBuiltin == InitBuiltin /\ [][NextBuiltin]_bvars

\* Init() has returned
Initialised == initStep = Len(InitRegisterCalls)

\* ------------------------------------------------------------------ C29
\* C29: once Init() has returned, no identifier is matched by two
\* registered patterns that carry different metadata, and a Resolve of a
\* built-in identifier returns the same MaxTokens, cost and profiles
\* whatever order the registry is visited in.
C29_BuiltinsUnambiguous ==
    Initialised =>
        /\ \A id \in BuiltinIds :
              \A p, q \in Matching(initReg, id) : initReg[p] = initReg[q]
        /\ (initRet.op = "Resolve" /\ initRet.ok) =>
              \A p \in Matching(initReg, initRet.id) :
                  /\ initRet.info.MaxTokens = initReg[p].MaxTokens
                  /\ initRet.info.CostPerToken = initReg[p].CostPerToken
                  /\ initRet.info.Profiles = initReg[p].Profiles

\* =========================================================== lock protocol
\* The calls of one registry as the sequence of operations each makes on
\* mu, a sync.RWMutex, with the goroutines that are blocked in Lock() and
\* RLock() kept apart from the ones that hold the lock.  The payloads play
\* no part in which path a call returns by, so one payload is registered.

\* a well-formed and a malformed pattern; an identifier the first matches
\* and one that nothing matches
LockPatterns == {PatPrefix, PatMalformed}
LockIds == {<<"a">>, <<"b">>}

LockPayload(k) ==
    IF k = "models" THEN [ID |-> RegisteredID, MaxTokens |-> 1] ELSE 1

\* the goroutines blocked in mu.Lock()
LockWaiting(pcs) ==
    {u \in Threads : pcs[u] \in {"reg_wait", "res_wait", "clear_wait"}}

\* the goroutines blocked in mu.RLock()
RLockWaiting(pcs) ==
    {u \in Threads : pcs[u] \in {"res_rwait", "list_rwait"}}

\* sync.RWMutex: RLock() returns at once unless a writer holds the lock or
\* is blocked in Lock() ("a blocked Lock call excludes new readers from
\* acquiring the lock")
RLockPasses(lk, pcs) ==
    /\ \A u \in Threads : lk[u] # "W"
    /\ LockWaiting(pcs) = {}

\* sync.RWMutex: Lock() returns when no goroutine holds the lock
LockPasses(lk) == \A u \in Threads : lk[u] = ""

\* where a goroutine is once its RLock() has returned
RLocked(pcAt) == IF pcAt = "res_rwait" THEN "res_rlocked" ELSE "list_rlocked"

\* RUnlock that leaves the read lock held
RUnlockKeeps(lk, t) == lk

\* mu.RUnlock() by goroutine t
RUnlock(lk, t) == [lk EXCEPT ![t] = ""]

\* mu.Unlock() by goroutine t, which then returns: the readers blocked in
\* RLock() are woken holding the read lock
Unlock(lk, pcs, t) ==
    [mu |-> [u \in Threads |->
                IF u \in RLockWaiting(pcs) THEN "R"
                ELSE IF u = t THEN "" ELSE lk[u]],
     at |-> [u \in Threads |->
                IF u \in RLockWaiting(pcs) THEN RLocked(pcs[u])
                ELSE IF u = t THEN "idle" ELSE pcs[u]]]

NoCallArg == <<>>

InitLock ==
    /\ RegistryIdle /\ NormalizerIdle /\ SharingIdle /\ OptionsIdle
    /\ ConfigIdle /\ RetryIdle /\ CallIdle /\ BuiltinIdle
    /\ lpkg \in {"models", "connectors"}
    /\ lregistry = EmptyMap
    /\ lcache = EmptyMap
    /\ mu = [t \in Threads |-> ""]
    /\ at = [t \in Threads |-> "idle"]
    /\ callArg = [t \in Threads |-> NoCallArg]

\* a goroutine calls Register, Resolve, ListModels or ClearRegistry and
\* reaches the first statement, mu.Lock() or mu.RLock()
LockCall(t, op, a) ==
    /\ UNCHANGED <<vars, nvars, ovars, ivars, cvars, rvars, kvars, bvars>>
    /\ at[t] = "idle"
    /\ at' = [at EXCEPT ![t] = op]
    /\ callArg' = [callArg EXCEPT ![t] = a]
    /\ UNCHANGED <<lpkg, lregistry, lcache, mu>>

\* mu.RLock() returns to a goroutine that was not made to wait
LockRLock(t) ==
    /\ UNCHANGED <<vars, nvars, ovars, ivars, cvars, rvars, kvars, bvars>>
    /\ at[t] \in {"res_rwait", "list_rwait"}
    /\ RLockPasses(mu, at)
    /\ mu' = [mu EXCEPT ![t] = "R"]
    /\ at' = [at EXCEPT ![t] = RLocked(at[t])]
    /\ UNCHANGED <<lpkg, lregistry, lcache, callArg>>

\* mu.Lock() returns
LockLock(t) ==
    /\ UNCHANGED <<vars, nvars, ovars, ivars, cvars, rvars, kvars, bvars>>
    /\ t \in LockWaiting(at)
    /\ LockPasses(mu)
    /\ mu' = [mu EXCEPT ![t] = "W"]
    /\ at' = [at EXCEPT ![t] =
                 CASE at[t] = "reg_wait" -> "reg_locked"
                   [] at[t] = "res_wait" -> "res_locked"
                   [] at[t] = "clear_wait" -> "clear_locked"]
    /\ UNCHANGED <<lpkg, lregistry, lcache, callArg>>

\* the body of Register, the deferred mu.Unlock() and the return, with nil
\* or with the error of regexp.Compile
LockRegister(t) ==
    /\ UNCHANGED <<vars, nvars, ovars, ivars, cvars, rvars, kvars, bvars>>
    /\ at[t] = "reg_locked"
    /\ LET r == IF lpkg = "models"
                THEN ModelsRegister(lregistry, lcache, callArg[t],
                                    LockPayload(lpkg))
                ELSE ConnectorsRegister(lregistry, lcache, callArg[t],
                                        LockPayload(lpkg))
       IN  /\ lregistry' = r.registry
           /\ lcache' = r.cache
    /\ mu' = Unlock(mu, at, t).mu
    /\ at' = Unlock(mu, at, t).at
    /\ callArg' = [callArg EXCEPT ![t] = NoCallArg]
    /\ UNCHANGED lpkg

\* Resolve under the read lock: the cache lookup, mu.RUnlock() on either
\* branch, and the return on a hit; on a miss the goroutine goes on to
\* mu.Lock()
LockResolveLookup(t) ==
    /\ UNCHANGED <<vars, nvars, ovars, ivars, cvars, rvars, kvars, bvars>>
    /\ at[t] = "res_rlocked"
    /\ LET r == IF lpkg = "models"
                THEN ModelsResolveRLocked(lcache, callArg[t])
                ELSE ConnectorsResolveRLocked(lcache, callArg[t])
       IN  IF r.found
           THEN /\ at' = [at EXCEPT ![t] = "idle"]
                /\ callArg' = [callArg EXCEPT ![t] = NoCallArg]
           ELSE /\ at' = [at EXCEPT ![t] = "res_wait"]
                /\ UNCHANGED callArg
    /\ mu' = RUnlock(mu, t)
    /\ UNCHANGED <<lpkg, lregistry, lcache>>

\* Resolve under the write lock: the second lookup, the scan, the deferred
\* mu.Unlock() and the return, with a payload or with an error
LockResolve(t) ==
    /\ UNCHANGED <<vars, nvars, ovars, ivars, cvars, rvars, kvars, bvars>>
    /\ at[t] = "res_locked"
    /\ \E o \in IF lpkg = "models"
                THEN ModelsResolveLocked(lregistry, lcache, callArg[t])
                ELSE ConnectorsResolveLocked(lregistry, lcache, callArg[t]) :
          lcache' = o.cache
    /\ mu' = Unlock(mu, at, t).mu
    /\ at' = Unlock(mu, at, t).at
    /\ callArg' = [callArg EXCEPT ![t] = NoCallArg]
    /\ UNCHANGED <<lpkg, lregistry>>

\* the body of ListModels / ListModelPatterns, the deferred mu.RUnlock()
\* and the return
LockList(t) ==
    /\ UNCHANGED <<vars, nvars, ovars, ivars, cvars, rvars, kvars, bvars>>
    /\ at[t] = "list_rlocked"
    /\ mu' = RUnlock(mu, t)
    /\ at' = [at EXCEPT ![t] = "idle"]
    /\ UNCHANGED <<lpkg, lregistry, lcache, callArg>>

\* the body of ClearRegistry, the deferred mu.Unlock() and the return
LockClear(t) ==
    /\ UNCHANGED <<vars, nvars, ovars, ivars, cvars, rvars, kvars, bvars>>
    /\ at[t] = "clear_locked"
    /\ LET r == IF lpkg = "models"
                THEN ClearRegistry(lregistry, lcache)
                ELSE ConnectorsClear(lregistry, lcache)
       IN  /\ lregistry' = r.registry
           /\ lcache' = r.cache
    /\ mu' = Unlock(mu, at, t).mu
    /\ at' = Unlock(mu, at, t).at
    /\ UNCHANGED <<lpkg, callArg>>

NextLock ==
    \E t \in Threads :
        \/ \E p \in LockPatterns : LockCall(t, "reg_wait", p)
        \/ \E id \in LockIds : LockCall(t, "res_rwait", id)
        \/ LockCall(t, "list_rwait", NoCallArg)
        \/ LockCall(t, "clear_wait", NoCallArg)
        \/ LockRLock(t)
        \/ LockLock(t)
        \/ LockRegister(t)
        \/ LockResolveLookup(t)
        \/ LockResolve(t)
        \/ LockList(t)
        \/ LockClear(t)

\* A goroutine that can run does run (the Go scheduler), and a goroutine
\* blocked in Lock() gets the lock if it is free again and again (a
\* sync.Mutex hands the lock to a waiter that has waited too long).
\* Callers are not obliged to make calls.
LockFairness ==
    \A t \in Threads :
        /\ WF_lvars(LockRLock(t))
        /\ SF_lvars(LockLock(t))
        /\ WF_lvars(LockRegister(t))
        /\ WF_lvars(LockResolveLookup(t))
        /\ WF_lvars(LockResolve(t))
        /\ WF_lvars(LockList(t))
        /\ WF_lvars(LockClear(t))

SpecLock == InitLock /\ [][NextLock]_lvars /\ LockFairness

\* ------------------------------------------------------------------ C30
\* C30: a goroutine that is not in a call, or that is blocked in Lock() or
\* RLock(), holds no part of the lock: every return path of Register,
\* Resolve, List and Clear releases what the call took, and Resolve gives
\* up the read lock before it asks for the write lock; and under fair
\* scheduling every call that was started returns.
C30_CallsReturn ==
    /\ [](\A t \in Threads :
             at[t] \in {"idle", "reg_wait", "res_rwait", "res_wait",
                        "list_rwait", "clear_wait"} => mu[t] = "")
    /\ \A t \in Threads : (at[t] # "idle") ~> (at[t] = "idle")

\* a Resolve that missed the cache holds the write lock while another
\* call is blocked in RLock()
C30_Witness ==
    \E t, u \in Threads :
        /\ at[t] = "res_locked"
        /\ mu[t] = "W"
        /\ u \in RLockWaiting(at)

====
